---------------------------- MODULE Spec2Model ----------------------------
(***************************************************************************)
(* conclave: the two-stage consensus orchestrator                          *)
(* (internal/consensus/consensus.go), the ralph-run retry loop             *)
(* (cmd/conclave/ralphrun.go) and the in-process envelope bus              *)
(* (internal/bus), each as a state machine with its own specification.     *)
(*                                                                         *)
(* Go strings are modelled as sequences of tokens: "" is <<>>, string      *)
(* concatenation is \o and strings.Contains is Contains.  A nil error is   *)
(* the empty message <<>>; a nil pointer is the empty sequence and a       *)
(* non-nil pointer a one-element sequence holding the pointee.             *)
(***************************************************************************)
EXTENDS Integers, Sequences, FiniteSets, TLC

VARIABLES
    \* ---- consensus orchestrator ----
    agents,         \* RunConsensus argument: the agent list
    chairmen,       \* RunConsensus argument: the chairman candidate list
    cpc,            \* position of RunConsensus
    available,      \* the filtered agent list (consensus.go:76-81)
    gstate,         \* per Stage-1 goroutine: "running" | "returned"
    results,        \* the results slice of runStage1WithPrompt
    returned,       \* history: what each Stage-1 Run call returned
    doneOrder,      \* history: the Stage-1 goroutines in order of completion
    start2,         \* start2 of RunConsensus: when Stage 2 began
    now,            \* wall clock, in seconds
    deadline1,      \* deadline of ctx1
    deadline2,      \* deadline of ctx2
    chairIdx,       \* loop index of RunStage2
    chairRunning,   \* a chairman Run call is in flight
    chairStart,     \* when the chairman Run call in flight started
    chairRet,       \* history: what each chairman Run call returned
    calls,          \* history: every Run invocation, in order
    succeeded,      \* the tally of RunConsensus
    chairmanPrompt, \* the prompt handed to RunStage2
    ret,            \* what RunConsensus returned: [result, err]
    \* ---- ralph-run retry loop (one working directory) ----
    lock,           \* the directory's lock marker: 0 (absent) or the holder
    stateFile,      \* the persisted RalphState: <<>> (absent) or <<state>>
    contextFile,    \* the persisted previous-attempt context
    run,            \* per ralph-run invocation: position, locals, history
    \* ---- envelope bus ----
    seqCounter,     \* the process-wide sequence counter of NewEnvelope
    busClosed,      \* the bus has been closed
    busSubs,        \* the subscriptions, in Subscribe order
    pub,            \* per publisher thread: position in Publish, its envelope
    published,      \* history: the number of Publish calls that returned
    busPanic,       \* a bus call panicked: the process is gone
    busRet,         \* what the last bus call to return returned
    built,          \* history: the Seq of every envelope, in construction order
    \* ---- pure functions under test ----
    tmPattern,      \* TopicMatch: the pattern argument
    tmTopic,        \* TopicMatch: the topic argument
    tmResult,       \* TopicMatch: <<>> before the call, <<result>> after it
    boardLines,     \* ReadBoard: the lines of the board files, in scan order
    boardMax,       \* ReadBoard: the maxMessages argument
    boardResult,    \* ReadBoard: <<>> before the call, <<result>> after it
    boardDir,       \* ReadBoard: the directory argument, as found on disk
    dirResult       \* ReadBoard on boardDir: <<>>, then <<[result, err]>>

consVars == <<agents, chairmen, cpc, available, gstate, results, returned, doneOrder, start2, now,
              deadline1, deadline2, chairIdx, chairRunning, chairStart, chairRet,
              calls, succeeded, chairmanPrompt, ret>>

ralphVars == <<lock, stateFile, contextFile, run>>

busVars == <<seqCounter, busClosed, busSubs, pub, published, busPanic, busRet, built>>

pureVars == <<tmPattern, tmTopic, tmResult, boardLines, boardMax, boardResult, boardDir, dirResult>>

vars == <<consVars, ralphVars, busVars, pureVars>>

-----------------------------------------------------------------------------
(* Strings *)

Nil == <<>>

Contains(s, sub) ==
    \E i \in 1..(Len(s) - Len(sub) + 1) : SubSeq(s, i, i + Len(sub) - 1) = sub

Max(a, b) == IF a >= b THEN a ELSE b

Min(a, b) == IF a <= b THEN a ELSE b

-----------------------------------------------------------------------------
(* Consensus orchestrator: bounds and inputs *)

MaxAgents == 2

MaxChairmen == 2

Stage1Timeout == 2

Stage2Timeout == 1

\* A delay longer than either stage's timeout.
SlowDelay == Max(Stage1Timeout, Stage2Timeout) + 1

ErrAPI == <<"API", "error">>

ErrDeadline == <<"context", "deadline", "exceeded">>

\* Behaviours of an Agent (the mockAgent fields, plus whether Run observes
\* ctx.Done()): available, delay, response, err, coop.
AgentKinds ==
    { [available |-> FALSE, delay |-> 0, response |-> TRUE,  err |-> Nil,    coop |-> TRUE],
      [available |-> TRUE,  delay |-> 0, response |-> TRUE,  err |-> Nil,    coop |-> TRUE],
      [available |-> TRUE,  delay |-> 0, response |-> FALSE, err |-> ErrAPI, coop |-> TRUE],
      [available |-> TRUE,  delay |-> 0, response |-> TRUE,  err |-> ErrAPI, coop |-> TRUE],
      [available |-> TRUE,  delay |-> 1, response |-> TRUE, err |-> Nil, coop |-> TRUE],
      [available |-> TRUE,  delay |-> Stage1Timeout, response |-> TRUE, err |-> Nil, coop |-> TRUE],
      [available |-> TRUE,  delay |-> SlowDelay, response |-> TRUE, err |-> Nil, coop |-> TRUE],
      [available |-> TRUE,  delay |-> SlowDelay, response |-> TRUE, err |-> Nil, coop |-> FALSE] }

ChairKinds ==
    { [available |-> FALSE, delay |-> 0, response |-> TRUE,  err |-> Nil,    coop |-> TRUE],
      [available |-> TRUE,  delay |-> 0, response |-> TRUE,  err |-> Nil,    coop |-> TRUE],
      [available |-> TRUE,  delay |-> 0, response |-> FALSE, err |-> Nil,    coop |-> TRUE],
      [available |-> TRUE,  delay |-> 0, response |-> TRUE,  err |-> ErrAPI, coop |-> TRUE],
      [available |-> TRUE,  delay |-> SlowDelay, response |-> TRUE, err |-> Nil, coop |-> TRUE] }

\* mockAgent construction: the agent at position i of a list.
MkAgent(kind, name) ==
    [name |-> name, available |-> kind.available, delay |-> kind.delay,
     response |-> IF kind.response THEN <<"resp-" \o name>> ELSE Nil,
     err |-> kind.err, coop |-> kind.coop]

\* The lists of 1..maxLen agents of the given kinds, named prefix1, prefix2, ...
AgentLists(kinds, maxLen, prefix) ==
    UNION { { [i \in 1..n |-> MkAgent(f[i], prefix \o ToString(i))] : f \in [1..n -> kinds] } :
            n \in 1..maxLen }


ZeroResult == [Agent |-> "", Output |-> Nil, Err |-> Nil]

NoReturn == [out |-> Nil, err |-> <<"pending">>]

ConsensusInit ==
    /\ agents \in AgentLists(AgentKinds, MaxAgents, "A")
    /\ chairmen \in AgentLists(ChairKinds, MaxChairmen, "C")
    /\ cpc = "idle"
    /\ available = <<>>
    /\ gstate = <<>>
    /\ results = <<>>
    /\ returned = <<>>
    /\ doneOrder = <<>>
    /\ start2 = 0
    /\ now = 0
    /\ deadline1 = 0
    /\ deadline2 = 0
    /\ chairIdx = 0
    /\ chairRunning = FALSE
    /\ chairStart = 0
    /\ chairRet = [i \in 1..Len(chairmen) |-> NoReturn]
    /\ calls = <<>>
    /\ succeeded = 0
    /\ chairmanPrompt = Nil
    /\ ret = [result |-> <<>>, err |-> Nil]

-----------------------------------------------------------------------------
(* Agent.Run *)

\* What a.Run(ctx, prompt), started at `start` under a context with deadline
\* `deadline`, may return at time t: the set of <<output, err>> pairs.  With
\* delay 0 Run returns at once; otherwise it returns when the delay is over
\* or, if it observes ctx.Done(), when the deadline has passed (either one
\* when both are ready, as Go's select chooses).
RunOutcomes(a, start, deadline, t) ==
    IF a.delay = 0
    THEN { <<a.response, a.err>> }
    ELSE (IF t >= start + a.delay THEN { <<a.response, a.err>> } ELSE {})
         \cup (IF a.coop /\ t >= deadline THEN { <<Nil, ErrDeadline>> } ELSE {})

-----------------------------------------------------------------------------
(* RunConsensus *)

ErrNoAgents == <<"no", "agents", "available", "(need", "at", "least", "1", "API", "key)">>

ErrAllAgentsFailed(n) == <<"all", "agents", "failed", "(0/" \o ToString(n), "succeeded)">>

ErrAllChairmen == <<"all", "chairman", "agents", "failed">>

ErrStage2(e) == <<"stage", "2", "failed:">> \o e

\* Every agent is kept, whatever Available() reports.
FilterAvailable_All(as) == as

\* consensus.go:76-81
FilterAvailable(as) == SelectSeq(as, LAMBDA a : a.available)

NoneAvailable_Unchecked(av) == FALSE

\* consensus.go:82
NoneAvailable(av) == Len(av) = 0

Tally_ByOutput(rs) == Cardinality({ i \in 1..Len(rs) : rs[i].Output # Nil })

\* consensus.go:97-105
Tally(rs) == Cardinality({ i \in 1..Len(rs) : rs[i].Err = Nil })

NoneSucceeded_OffByOne(n) == n <= 1

\* consensus.go:107
NoneSucceeded(n) == n = 0

WgWait_Any(gs) == \E i \in 1..Len(gs) : gs[i] = "returned"

\* sync.WaitGroup.Wait, consensus.go:56
WgWait(gs) == \A i \in 1..Len(gs) : gs[i] = "returned"

\* consensus.go:194-209
RECURSIVE PromptBody(_)
PromptBody(rs) ==
    IF rs = <<>> THEN <<>>
    ELSE (IF Head(rs).Err = Nil
          THEN <<"---", Head(rs).Agent, "Analysis ---">> \o Head(rs).Output
          ELSE <<>>) \o PromptBody(Tail(rs))

buildChairmanPrompt(rs) ==
    <<"Compile consensus from", ToString(Tally(rs)), "of", ToString(Len(rs)), "analyses.">>
        \o PromptBody(rs)

Accepts_ErrOnly(output, err) == err = Nil

\* consensus.go:66
Accepts(output, err) == err = Nil /\ output # Nil

\* RunConsensus up to the launch of Stage 1 (consensus.go:74-93, 43-55).
StartConsensus ==
    /\ cpc = "idle"
    /\ LET av == FilterAvailable(agents) IN
       IF NoneAvailable(av)
       THEN /\ cpc' = "failed"
            /\ ret' = [result |-> <<>>, err |-> ErrNoAgents]
            /\ UNCHANGED <<available, gstate, results, returned, deadline1, calls>>
       ELSE /\ cpc' = "stage1"
            /\ available' = av
            /\ deadline1' = now + Stage1Timeout
            /\ results' = [i \in 1..Len(av) |-> ZeroResult]
            /\ gstate' = [i \in 1..Len(av) |-> "running"]
            /\ returned' = [i \in 1..Len(av) |-> NoReturn]
            /\ calls' = calls \o [i \in 1..Len(av) |-> [stage |-> 1, name |-> av[i].name]]
            /\ UNCHANGED ret
    /\ UNCHANGED <<agents, chairmen, now, deadline2, chairIdx, chairRunning, chairStart,
                   chairRet, succeeded, chairmanPrompt, doneOrder, start2>>
    /\ UNCHANGED <<ralphVars, busVars, pureVars>>

StoreResult_CompletionOrder(rs, i, a, out, err) ==
    [rs EXCEPT ![Len(doneOrder) + 1] = [Agent |-> a.name, Output |-> out, Err |-> err]]

StoreResult_SharedIndex(rs, i, a, out, err) ==
    [rs EXCEPT ![Len(rs)] = [Agent |-> a.name, Output |-> out, Err |-> err]]

\* results[i] = AgentResult{...}, consensus.go:52
StoreResult(rs, i, a, out, err) ==
    [rs EXCEPT ![i] = [Agent |-> a.name, Output |-> out, Err |-> err]]

\* One Stage-1 goroutine: Run returns, the result is stored, wg.Done
\* (consensus.go:49-53).
AgentReturn(i) ==
    /\ cpc = "stage1"
    /\ i \in 1..Len(gstate)
    /\ gstate[i] = "running"
    /\ \E o \in RunOutcomes(available[i], 0, deadline1, now) :
        /\ returned' = [returned EXCEPT ![i] = [out |-> o[1], err |-> o[2]]]
        /\ results' = StoreResult(results, i, available[i], o[1], o[2])
    /\ gstate' = [gstate EXCEPT ![i] = "returned"]
    /\ doneOrder' = Append(doneOrder, i)
    /\ UNCHANGED <<agents, chairmen, cpc, available, now, deadline1, deadline2, chairIdx,
                   chairRunning, chairStart, chairRet, calls, succeeded, chairmanPrompt, ret,
                   start2>>
    /\ UNCHANGED <<ralphVars, busVars, pureVars>>

Stage2Deadline_Inherited(t, d1) == Min(d1, t + Stage2Timeout)

\* ctx2 is derived from ctx, not from ctx1: its deadline is stage2Timeout
\* from the moment it is made (consensus.go:113).
Stage2Deadline(t, d1) == t + Stage2Timeout

\* wg.Wait returns; tally; Stage 2 set-up (consensus.go:56-57, 96-117).
Stage1Join ==
    /\ cpc = "stage1"
    /\ WgWait(gstate)
    /\ LET n == Tally(results) IN
       /\ succeeded' = n
       /\ IF NoneSucceeded(n)
          THEN /\ cpc' = "failed"
               /\ ret' = [result |-> <<>>, err |-> ErrAllAgentsFailed(Len(available))]
               /\ UNCHANGED <<deadline2, chairmanPrompt, chairIdx, start2>>
          ELSE /\ cpc' = "stage2"
               /\ deadline2' = Stage2Deadline(now, deadline1)
               /\ start2' = now
               /\ chairmanPrompt' = buildChairmanPrompt(results)
               /\ chairIdx' = 1
               /\ UNCHANGED ret
    /\ UNCHANGED <<agents, chairmen, available, gstate, results, returned, now, deadline1,
                   chairRunning, chairStart, chairRet, calls, doneOrder>>
    /\ UNCHANGED <<ralphVars, busVars, pureVars>>

NextCandidate_Retry(idx) == idx

\* RunStage2: the range loop moves to the next candidate (consensus.go:61).
NextCandidate(idx) == idx + 1

\* RunStage2: `if !chairman.Available() { continue }` (consensus.go:62-64).
ChairSkip ==
    /\ cpc = "stage2"
    /\ ~chairRunning
    /\ chairIdx <= Len(chairmen)
    /\ ~chairmen[chairIdx].available
    /\ chairIdx' = NextCandidate(chairIdx)
    /\ UNCHANGED <<agents, chairmen, cpc, available, gstate, results, returned, now,
                   deadline1, deadline2, chairRunning, chairStart, chairRet, calls,
                   succeeded, chairmanPrompt, ret, doneOrder, start2>>
    /\ UNCHANGED <<ralphVars, busVars, pureVars>>

\* RunStage2: chairman.Run(ctx, prompt) is called (consensus.go:65).
ChairInvoke ==
    /\ cpc = "stage2"
    /\ ~chairRunning
    /\ chairIdx <= Len(chairmen)
    /\ chairmen[chairIdx].available
    /\ chairRunning' = TRUE
    /\ chairStart' = now
    /\ calls' = Append(calls, [stage |-> 2, name |-> chairmen[chairIdx].name])
    /\ UNCHANGED <<agents, chairmen, cpc, available, gstate, results, returned, now,
                   deadline1, deadline2, chairIdx, chairRet, succeeded, chairmanPrompt, ret,
                   doneOrder, start2>>
    /\ UNCHANGED <<ralphVars, busVars, pureVars>>

\* A deadline of its own for each candidate, counted from its invocation.
CandidateContext_Fresh(ctx, started) == started + Stage2Timeout

\* RunStage2 hands its own ctx to every candidate's Run (consensus.go:60-65).
CandidateContext(ctx, started) == ctx

\* RunStage2: chairman.Run returns (consensus.go:65-69) and, when accepted,
\* RunConsensus returns the result (consensus.go:118-130).
ChairReturn ==
    /\ cpc = "stage2"
    /\ chairRunning
    /\ \E o \in RunOutcomes(chairmen[chairIdx], chairStart,
                          CandidateContext(deadline2, chairStart), now) :
        /\ chairRet' = [chairRet EXCEPT ![chairIdx] = [out |-> o[1], err |-> o[2]]]
        /\ IF Accepts(o[1], o[2])
           THEN /\ cpc' = "done"
                /\ ret' = [result |-> << [Stage1Results |-> results,
                                          ChairmanName |-> chairmen[chairIdx].name,
                                          ChairmanOutput |-> o[1],
                                          AgentsSucceeded |-> succeeded] >>,
                           err |-> Nil]
                /\ UNCHANGED chairIdx
           ELSE /\ chairIdx' = NextCandidate(chairIdx)
                /\ UNCHANGED <<cpc, ret>>
    /\ chairRunning' = FALSE
    /\ UNCHANGED <<agents, chairmen, available, gstate, results, returned, now, deadline1,
                   deadline2, chairStart, calls, succeeded, chairmanPrompt, doneOrder, start2>>
    /\ UNCHANGED <<ralphVars, busVars, pureVars>>

\* RunStage2 falls off the list (consensus.go:71) and RunConsensus wraps the
\* error (consensus.go:119-121).
Stage2Exhausted ==
    /\ cpc = "stage2"
    /\ ~chairRunning
    /\ chairIdx > Len(chairmen)
    /\ cpc' = "failed"
    /\ ret' = [result |-> <<>>, err |-> ErrStage2(ErrAllChairmen)]
    /\ UNCHANGED <<agents, chairmen, available, gstate, results, returned, now, deadline1,
                   deadline2, chairIdx, chairRunning, chairStart, chairRet, calls,
                   succeeded, chairmanPrompt, doneOrder, start2>>
    /\ UNCHANGED <<ralphVars, busVars, pureVars>>

\* Some Run call in flight can return now.
CanReturn ==
    \/ /\ cpc = "stage1"
       /\ \E i \in 1..Len(gstate) :
            gstate[i] = "running" /\ RunOutcomes(available[i], 0, deadline1, now) # {}
    \/ /\ cpc = "stage2" /\ chairRunning
       /\ RunOutcomes(chairmen[chairIdx], chairStart,
                          CandidateContext(deadline2, chairStart), now) # {}

\* Time passes while the orchestrator is blocked on Run calls none of which
\* is ready to return.
Tick ==
    /\ \/ cpc = "stage1" /\ ~WgWait(gstate)
       \/ cpc = "stage2" /\ chairRunning
    /\ ~CanReturn
    /\ now' = now + 1
    /\ UNCHANGED <<agents, chairmen, cpc, available, gstate, results, returned, deadline1,
                   deadline2, chairIdx, chairRunning, chairStart, chairRet, calls,
                   succeeded, chairmanPrompt, ret, doneOrder, start2>>
    /\ UNCHANGED <<ralphVars, busVars, pureVars>>

ConsensusNext ==
    \/ StartConsensus
    \/ \E i \in 1..MaxAgents : AgentReturn(i)
    \/ Stage1Join
    \/ ChairSkip
    \/ ChairInvoke
    \/ ChairReturn
    \/ Stage2Exhausted
    \/ Tick

-----------------------------------------------------------------------------
(* ralph-run: bounds, inputs and the ralph package *)

\* Concurrent ralph-run invocations in the one working directory.
NRuns == 2

\* Largest --max-iterations and --stuck-threshold drawn.
MaxIterFlag == 3

MaxThreshold == 2

Runs == 1..NRuns

Task == <<"task">>

\* Combined outputs of a failing and of a passing gate.
FailOutputs == { <<"errA">>, <<"errB">> }

PassOutputs == { <<"ok">>, <<"ok", "SPEC_PASS">> }

\* The error of a gate that failed (a non-zero exit status).
ErrGate == <<"exit", "status", "1">>

\* What a gate run may end with: its combined output and its error.
GateResults ==
    { [out |-> o, err |-> ErrGate] : o \in FailOutputs }
        \cup { [out |-> o, err |-> Nil] : o \in PassOutputs }

\* A local variable of the loop body that has not been assigned yet.
Unset == <<"unset">>

ErrTaskRequired == <<"--task", "is", "required">>

ErrMaxIterations == <<"max", "iterations", "reached">>

ErrLockHeld == <<"lock", "held">>

ErrInit == <<"state", "init", "failed">>

ErrLoad == <<"state", "load", "failed">>

StuckDirective == <<"STUCK-DIRECTIVE">>

\* ralph.Lock.Acquire: the marker is created if absent; otherwise the call
\* fails at once and leaves the marker alone.
LockAcquire(l, p) ==
    IF l = 0 THEN [lock |-> p, err |-> Nil] ELSE [lock |-> l, err |-> ErrLockHeld]

\* ralph.Lock.Release: the marker is removed.
LockRelease(l, p) == 0

\* ralph.StateManager.Init: the state a loop starts with.
NewState(taskID, maxIter) ==
    [TaskID |-> taskID, Iteration |-> 1, MaxIterations |-> maxIter, StuckCount |-> 0,
     StrategyShiftCount |-> 0, LastError |-> Nil]

\* Whether a gate failure is judged equivalent to the previous one.
SameError(prev, cur) == prev = cur

\* ralph.StateManager.Update: stuck bookkeeping and the iteration count.
SmUpdate(sf, gate, output) ==
    IF sf = <<>> THEN sf
    ELSE << [sf[1] EXCEPT !.Iteration = @ + 1,
                          !.StuckCount = IF SameError(sf[1].LastError, output) THEN @ + 1 ELSE 0,
                          !.LastError = output] >>

\* ralph.StateManager.IncrementStrategyShift
SmIncrementStrategyShift(sf) ==
    IF sf = <<>> THEN sf ELSE << [sf[1] EXCEPT !.StrategyShiftCount = @ + 1] >>

\* ralph.IsStuck
IsStuck(stuckCount, threshold) == stuckCount >= threshold

IdleRun ==
    [pc |-> "start", maxIter |-> 0, stuckThreshold |-> 0, skipSpec |-> FALSE,
     state |-> <<>>, prompt |-> Nil, implOut |-> Nil, implErr |-> Unset, testErr |-> Unset,
     returned |-> FALSE, err |-> Nil,
     checks |-> 0, implAttempts |-> 0, implPassed |-> 0, testAttempts |-> 0,
     handoffs |-> 0, loadErrors |-> 0, specConfirmed |-> FALSE]

RalphInit ==
    /\ lock = 0
    /\ stateFile = <<>>
    /\ contextFile = Nil
    /\ run = [p \in Runs |-> IdleRun]

-----------------------------------------------------------------------------
(* runRalphRun *)

AcquireFailed_Ignored(err) == FALSE

\* ralphrun.go:48
AcquireFailed(err) == err # Nil

Exhausted_OffByOne(st) == st.Iteration >= st.MaxIterations

Exhausted_OneLate(st) == st.Iteration > st.MaxIterations + 1

\* ralphrun.go:69
Exhausted(st) == st.Iteration > st.MaxIterations

BuildPrompt_Appended(directive, ctxContent) ==
    Task \o directive
        \o (IF Len(ctxContent) > 0 THEN <<"## Previous Attempt Context">> \o ctxContent ELSE Nil)

\* ralphrun.go:87-94
BuildPrompt(directive, ctxContent) ==
    (IF directive # Nil THEN directive \o Task ELSE Task)
        \o (IF Len(ctxContent) > 0 THEN <<"## Previous Attempt Context">> \o ctxContent ELSE Nil)

\* strings.Contains(out, "SPEC_PASS"), ralphrun.go:122
HasSpecPass(out) == Contains(out, <<"SPEC_PASS">>)

\* The invocation after runRalphRun has returned and its deferred calls have
\* run: the exit status, and whether it handed off.
Exited(r) ==
    [IdleRun EXCEPT !.pc = "exit", !.returned = TRUE, !.err = r.err, !.handoffs = r.handoffs]

\* `return err`: the return value is set; the deferred calls run next.
Return(r, err, next) ==
    IF next = "exit" THEN Exited([r EXCEPT !.err = err])
    ELSE [r EXCEPT !.returned = TRUE, !.err = err, !.pc = next]

ExitAcquireFailed_Releases == "release"

\* The return at ralphrun.go:49 comes before any defer: no deferred call runs.
ExitAcquireFailed == "exit"

\* The return at ralphrun.go:56: lock.Release is deferred.
ExitInitFailed == "release"

ExitLoop_NoCleanup == "release"

\* The returns inside the loop (ralphrun.go:66, 72, 129): sm.Cleanup and then
\* lock.Release are deferred.
ExitLoop == "cleanup"

ImplFailed_Ignored(implErr) == FALSE

\* ralphrun.go:102
ImplFailed(implErr) == implErr # Nil

LoadFailed_HandsOff(r) ==
    Return([r EXCEPT !.loadErrors = @ + 1, !.handoffs = @ + 1], ErrLoad, ExitLoop)

\* `return err` after a failed sm.Load (ralphrun.go:65-67).
LoadFailed(r) == Return([r EXCEPT !.loadErrors = @ + 1], ErrLoad, ExitLoop)

AfterRelease_CleansUp(r) == [r EXCEPT !.pc = "cleanup"]

\* lock.Release is the last deferred call (ralphrun.go:51): the invocation
\* is over.
AfterRelease(r) == Exited(r)

TestsFailed_Ignored(testErr) == FALSE

\* ralphrun.go:112
TestsFailed(testErr) == testErr # Nil

OnGateFailure_NoOutput(sf, gate, output) == SmUpdate(sf, gate, Nil)

OnGateFailure_ImplOnly(sf, gate, output) ==
    IF gate = "implement" THEN SmUpdate(sf, gate, output) ELSE sf

\* sm.Update(gate, 1, output), ralphrun.go:104 and 114
OnGateFailure(sf, gate, output) == SmUpdate(sf, gate, output)

Continue_Abort(r) == Return(r, ErrGate, ExitLoop)

\* `continue`, ralphrun.go:105 and 115: back to the top of the loop.
Continue(r) == [r EXCEPT !.pc = "load"]

AfterSpecGate_Gating(r, confirmed) ==
    IF r.skipSpec \/ confirmed
    THEN Return([r EXCEPT !.specConfirmed = confirmed], Nil, ExitLoop)
    ELSE Continue(r)

\* The spec scan only prints its finding; `return nil` follows whatever it
\* found (ralphrun.go:119-129).
AfterSpecGate(r, confirmed) == Return([r EXCEPT !.specConfirmed = confirmed], Nil, ExitLoop)

\* Flags, the --task check and lock.Acquire (ralphrun.go:34-51).
RalphStart(p) ==
    /\ run[p].pc = "start"
    /\ \E task \in {Nil, Task} :
        IF task = Nil
        THEN /\ run' = [run EXCEPT ![p] = Return(@, ErrTaskRequired, "exit")]
             /\ UNCHANGED lock
        ELSE LET a == LockAcquire(lock, p) IN
             /\ lock' = a.lock
             /\ IF AcquireFailed(a.err)
                THEN run' = [run EXCEPT ![p] = Return(@, a.err, ExitAcquireFailed)]
                ELSE \E mi \in (0 - 1)..MaxIterFlag, th \in 1..MaxThreshold, sk \in BOOLEAN :
                        run' = [run EXCEPT ![p] = [@ EXCEPT !.pc = "init", !.maxIter = mi,
                                                             !.stuckThreshold = th,
                                                             !.skipSpec = sk]]
    /\ UNCHANGED <<stateFile, contextFile>>
    /\ UNCHANGED <<consVars, busVars, pureVars>>

\* sm.Init (ralphrun.go:53-58): on failure only lock.Release is deferred.
RalphStateInit(p) ==
    /\ run[p].pc = "init"
    /\ \E ok \in BOOLEAN :
        IF ok
        THEN /\ stateFile' = <<NewState(p, run[p].maxIter)>>
             /\ run' = [run EXCEPT ![p].pc = "load"]
        ELSE /\ run' = [run EXCEPT ![p] = Return(@, ErrInit, ExitInitFailed)]
             /\ UNCHANGED stateFile
    /\ UNCHANGED <<lock, contextFile>>
    /\ UNCHANGED <<consVars, busVars, pureVars>>

\* Top of the loop: sm.Load and the exhaustion check with the hand-off
\* (ralphrun.go:63-75).
RalphLoad(p) ==
    /\ run[p].pc = "load"
    /\ \E ok \in BOOLEAN :
        IF ~ok \/ stateFile = <<>>
        THEN run' = [run EXCEPT ![p] = LoadFailed(@)]
        ELSE LET st == stateFile[1] IN
             IF Exhausted(st)
             THEN run' = [run EXCEPT ![p] =
                            Return([@ EXCEPT !.state = <<st>>, !.checks = @ + 1,
                                             !.handoffs = @ + 1],
                                   ErrMaxIterations, ExitLoop)]
             ELSE run' = [run EXCEPT ![p] = [@ EXCEPT !.state = <<st>>, !.checks = @ + 1,
                                                      !.pc = "prepare"]]
    /\ UNCHANGED <<lock, stateFile, contextFile>>
    /\ UNCHANGED <<consVars, busVars, pureVars>>

\* Stuck check, prompt assembly and the launch of the Implementation gate
\* (ralphrun.go:77-99).
RalphPrepare(p) ==
    /\ run[p].pc = "prepare"
    /\ LET stuck == IsStuck(run[p].state[1].StuckCount, run[p].stuckThreshold)
           directive == IF stuck THEN StuckDirective ELSE Nil
       IN /\ stateFile' = IF stuck THEN SmIncrementStrategyShift(stateFile) ELSE stateFile
          /\ run' = [run EXCEPT ![p] = [@ EXCEPT !.prompt = BuildPrompt(directive, contextFile),
                                                   !.implErr = Unset, !.testErr = Unset,
                                                   !.implAttempts = @ + 1,
                                                   !.pc = "implRunning"]]
    /\ UNCHANGED <<lock, contextFile>>
    /\ UNCHANGED <<consVars, busVars, pureVars>>

\* The Implementation gate ends (ralphrun.go:99-111): on failure sm.Update
\* and `continue`, otherwise the Tests gate is launched.
RalphImplEnd(p) ==
    /\ run[p].pc = "implRunning"
    /\ \E res \in GateResults :
        LET r == [run[p] EXCEPT !.implOut = res.out, !.implErr = res.err] IN
        IF ImplFailed(res.err)
        THEN /\ stateFile' = OnGateFailure(stateFile, "implement", res.out)
             /\ contextFile' = res.out
             /\ run' = [run EXCEPT ![p] = Continue(r)]
        ELSE /\ run' = [run EXCEPT ![p] = [r EXCEPT !.implPassed = @ + 1,
                                                     !.testAttempts = @ + 1,
                                                     !.pc = "testsRunning"]]
             /\ UNCHANGED <<stateFile, contextFile>>
    /\ UNCHANGED lock
    /\ UNCHANGED <<consVars, busVars, pureVars>>

\* The Tests gate ends (ralphrun.go:111-129): on failure sm.Update and
\* `continue`, otherwise the advisory spec scan and `return nil`.
RalphTestsEnd(p) ==
    /\ run[p].pc = "testsRunning"
    /\ \E res \in GateResults :
        LET r == [run[p] EXCEPT !.testErr = res.err] IN
        IF TestsFailed(res.err)
        THEN /\ stateFile' = OnGateFailure(stateFile, "tests", res.out)
             /\ contextFile' = res.out
             /\ run' = [run EXCEPT ![p] = Continue(r)]
        ELSE /\ run' = [run EXCEPT ![p] =
                         AfterSpecGate(r, ~r.skipSpec
                                          /\ (HasSpecPass(res.out) \/ HasSpecPass(r.implOut)))]
             /\ UNCHANGED <<stateFile, contextFile>>
    /\ UNCHANGED lock
    /\ UNCHANGED <<consVars, busVars, pureVars>>

\* The deferred sm.Cleanup (ralphrun.go:58).
RalphCleanup(p) ==
    /\ run[p].pc = "cleanup"
    /\ stateFile' = <<>>
    /\ contextFile' = Nil
    /\ run' = [run EXCEPT ![p].pc = "release"]
    /\ UNCHANGED lock
    /\ UNCHANGED <<consVars, busVars, pureVars>>

\* The deferred lock.Release (ralphrun.go:51); runRalphRun is over and what
\* is left of the invocation is its exit status.
RalphRelease(p) ==
    /\ run[p].pc = "release"
    /\ lock' = LockRelease(lock, p)
    /\ run' = [run EXCEPT ![p] = AfterRelease(@)]
    /\ UNCHANGED <<stateFile, contextFile>>
    /\ UNCHANGED <<consVars, busVars, pureVars>>

\* A step of invocation p.
RalphStep(p) ==
    \/ RalphStart(p)
    \/ RalphStateInit(p)
    \/ RalphLoad(p)
    \/ RalphPrepare(p)
    \/ RalphImplEnd(p)
    \/ RalphTestsEnd(p)
    \/ RalphCleanup(p)
    \/ RalphRelease(p)

\* An invocation keeps running: a gate ends, at the latest at its timeout
\* (ralphrun.go:96-100, 111), and everything else is straight-line code.
RalphFairness == WF_vars(RalphStep(1))

\* One invocation alone in the directory.
RalphSoloNext == RalphStep(1)

RalphNext ==
    \E p \in Runs :
        \/ RalphStart(p)
        \/ RalphStateInit(p)
        \/ RalphLoad(p)
        \/ RalphPrepare(p)
        \/ RalphImplEnd(p)
        \/ RalphTestsEnd(p)
        \/ RalphCleanup(p)
        \/ RalphRelease(p)

-----------------------------------------------------------------------------
(* Envelope bus: Envelope, TopicMatch, ChannelBus *)

QueueCap_OffByOne == 64 - 1

\* Capacity of a subscription's queue.
QueueCap == 64

\* Publish calls made in the flood.
MaxPublish == 70

\* Publisher threads: "main" publishes in a loop, "side" publishes once,
\* concurrently, at any point of the loop.
Pubs == {"main", "side"}

IsPrefix(pre, s) == Len(pre) <= Len(s) /\ SubSeq(s, 1, Len(pre)) = pre

TopicMatch_CharPrefix(pattern, topic) == pattern = <<>> \/ IsPrefix(pattern, topic)

\* TopicMatch: the pattern is empty, equals the topic, or is followed in the
\* topic by a dot.
TopicMatch(pattern, topic) ==
    \/ pattern = <<>>
    \/ pattern = topic
    \/ IsPrefix(pattern \o <<".">>, topic)

NewEnvelope_FromZero(topic, msg, counter) ==
    [Seq |-> counter, Topic |-> topic, Type |-> msg.Type, Sender |-> msg.Sender]

\* NewEnvelope: the next sequence number and the message's fields.
NewEnvelope(topic, msg, counter) ==
    [Seq |-> counter + 1, Topic |-> topic, Type |-> msg.Type, Sender |-> msg.Sender]

\* Subscribe: a new subscription with an empty queue.
\* closed is the cleared liveness flag; closes counts the close() calls made
\* on the queue's channel.
NewSubscription(pattern) ==
    [pattern |-> pattern, queue |-> <<>>, closed |-> FALSE, received |-> 0, closes |-> 0]

SendReady_Blocking(q) == Len(q) < QueueCap

\* `select { case ch <- env: default: }` is always ready: it sends when the
\* queue has room and takes the default case otherwise.
SendReady(q) == TRUE

TrySend_DropOldest(q, env) == IF Len(q) < QueueCap THEN Append(q, env) ELSE Append(Tail(q), env)

\* The non-blocking send: the envelope is dropped when the queue is full.
TrySend(q, env) == IF Len(q) < QueueCap THEN Append(q, env) ELSE q

Targets_LoadBalanced(env) ==
    LET m == { i \in 1..Len(busSubs) : ~busSubs[i].closed /\ TopicMatch(busSubs[i].pattern, env.Topic) }
    IN  IF m = {} THEN {} ELSE { CHOOSE i \in m : \A j \in m : i <= j }

Targets_IgnoresLiveness(env) ==
    { i \in 1..Len(busSubs) : TopicMatch(busSubs[i].pattern, env.Topic) }

\* The subscriptions Publish delivers env to.
Targets(env) ==
    { i \in 1..Len(busSubs) : ~busSubs[i].closed /\ TopicMatch(busSubs[i].pattern, env.Topic) }

IdlePub == [pc |-> "idle", env |-> <<>>]

ErrBusClosed == <<"bus","closed">>

\* What a bus call returned: the call, its pattern or topic, its error.
BusReturn(op, arg, err) == [op |-> op, arg |-> arg, err |-> err]

NoBusCall == BusReturn("none", <<>>, Nil)

\* Publish on a closed bus is a no-op or a failure.
PublishOnClosed == {Nil, ErrBusClosed}

\* The queue's channel has been closed: a receive on the drained queue
\* reports !ok, a send or a second close panics.
ChannelClosed(s) == s.closes > 0

\* Publish, first half: the envelope is built.
BusPublishBuild(t, topic, msg) ==
    /\ pub[t].pc = "idle"
    /\ ~busPanic
    /\ pub' = [pub EXCEPT ![t] = [pc |-> "built", env |-> <<NewEnvelope(topic, msg, seqCounter)>>]]
    /\ seqCounter' = seqCounter + 1
    /\ built' = Append(built, NewEnvelope(topic, msg, seqCounter).Seq)
    /\ UNCHANGED <<busClosed, busSubs, published, busPanic, busRet>>
    /\ UNCHANGED <<consVars, ralphVars, pureVars>>

\* Publish, second half: a copy goes to every matching subscription with
\* room, and Publish returns.
BusPublishDeliver(t) ==
    /\ pub[t].pc = "built"
    /\ ~busPanic
    /\ LET env == pub[t].env[1] IN
       /\ busClosed \/ \A i \in Targets(env) : SendReady(busSubs[i].queue)
       /\ IF busClosed
          THEN /\ busSubs' = busSubs
               /\ busPanic' = busPanic
               /\ \E err \in PublishOnClosed : busRet' = BusReturn("publish", env.Topic, err)
          ELSE /\ busSubs' = [i \in 1..Len(busSubs) |->
                                IF i \in Targets(env) /\ ~ChannelClosed(busSubs[i])
                                THEN [busSubs[i] EXCEPT !.queue = TrySend(@, env)]
                                ELSE busSubs[i]]
               /\ busPanic' = \E i \in Targets(env) : ChannelClosed(busSubs[i])
               /\ busRet' = BusReturn("publish", env.Topic, Nil)
    /\ pub' = [pub EXCEPT ![t] = IdlePub]
    /\ published' = published + 1
    /\ UNCHANGED <<seqCounter, busClosed, built>>
    /\ UNCHANGED <<consVars, ralphVars, pureVars>>

\* A subscriber receives the envelope at the head of its queue.
BusReceive(i) ==
    /\ i \in 1..Len(busSubs)
    /\ busSubs[i].queue # <<>>
    /\ ~busPanic
    /\ busSubs' = [busSubs EXCEPT ![i] = [@ EXCEPT !.queue = Tail(@), !.received = @ + 1]]
    /\ UNCHANGED <<seqCounter, busClosed, pub, published, busPanic, busRet, built>>
    /\ UNCHANGED <<consVars, ralphVars, pureVars>>

SubscribeRefused_Never == FALSE

\* Subscribe fails on a closed bus.
SubscribeRefused == busClosed

\* Subscribe(pattern): a new live subscription, or an error on a closed bus.
BusSubscribe(pattern) ==
    /\ ~busPanic
    /\ IF SubscribeRefused
       THEN /\ busSubs' = busSubs
            /\ busRet' = BusReturn("subscribe", pattern, ErrBusClosed)
       ELSE /\ busSubs' = Append(busSubs, NewSubscription(pattern))
            /\ busRet' = BusReturn("subscribe", pattern, Nil)
    /\ UNCHANGED <<seqCounter, busClosed, pub, published, busPanic, built>>
    /\ UNCHANGED <<consVars, ralphVars, pureVars>>

CloseQueue_StaysLive(s) == [s EXCEPT !.closes = @ + 1]

\* The subscription is destroyed: its liveness flag is cleared and its
\* queue's channel is closed.
CloseQueue(s) == [s EXCEPT !.closed = TRUE, !.closes = @ + 1]

\* The live subscriptions made under the pattern.
Under(pattern) ==
    { i \in 1..Len(busSubs) : ~busSubs[i].closed /\ busSubs[i].pattern = pattern }

\* The live subscriptions.
Live == { i \in 1..Len(busSubs) : ~busSubs[i].closed }

\* The subscriptions after the queues of those in hit have been closed.
CloseAll(hit) ==
    [i \in 1..Len(busSubs) |-> IF i \in hit THEN CloseQueue(busSubs[i]) ELSE busSubs[i]]

\* Unsubscribe(pattern): the queues of the live subscriptions made under the
\* pattern are closed; closing a closed channel panics.
BusUnsubscribe(pattern) ==
    /\ ~busPanic
    /\ busSubs' = CloseAll(Under(pattern))
    /\ busPanic' = \E i \in Under(pattern) : ChannelClosed(busSubs[i])
    /\ busRet' = BusReturn("unsubscribe", pattern, Nil)
    /\ UNCHANGED <<seqCounter, busClosed, pub, published, built>>
    /\ UNCHANGED <<consVars, ralphVars, pureVars>>

\* Close(): the queues of all live subscriptions are closed and the bus is
\* marked closed; on a closed bus it does nothing.
BusClose ==
    /\ ~busPanic
    /\ busSubs' = IF busClosed THEN busSubs ELSE CloseAll(Live)
    /\ busPanic' = (~busClosed /\ \E i \in Live : ChannelClosed(busSubs[i]))
    /\ busClosed' = TRUE
    /\ busRet' = BusReturn("close", <<>>, Nil)
    /\ UNCHANGED <<seqCounter, pub, published, built>>
    /\ UNCHANGED <<consVars, ralphVars, pureVars>>

\* The bus at rest: no subscription, nothing published.
BusIdle ==
    /\ seqCounter = 0
    /\ busClosed = FALSE
    /\ busSubs = <<>>
    /\ pub = [t \in Pubs |-> IdlePub]
    /\ published = 0
    /\ busPanic = FALSE
    /\ busRet = NoBusCall
    /\ built = <<>>

-----------------------------------------------------------------------------
(* The flood of TestChannelBusBackpressureDrop: one subscriber that reads    *)
(* nothing while MaxPublish messages are published, and drains afterwards.  *)

FloodTopic == <<"flood">>

FloodMsg == [Type |-> "msg", Sender |-> "s"]

\* NewChannelBus and Subscribe("flood") (bus_test.go:320-323).
FloodInit ==
    /\ seqCounter = 0
    /\ busClosed = FALSE
    /\ busSubs = <<NewSubscription(FloodTopic)>>
    /\ pub = [t \in Pubs |-> IdlePub]
    /\ published = 0
    /\ busPanic = FALSE
    /\ busRet = NoBusCall
    /\ built = <<>>

\* Publish calls started so far.
Started == seqCounter

\* The publish loop (bus_test.go:326-328).
FloodPublish ==
    /\ Started < MaxPublish
    /\ BusPublishBuild("main", FloodTopic, FloodMsg)

\* The concurrent Publish of the side thread, repeated until one of its
\* envelopes is queued.
FloodSidePublish ==
    /\ Started < MaxPublish
    /\ \A k \in 1..Len(busSubs[1].queue) : busSubs[1].queue[k].Sender # "side"
    /\ BusPublishBuild("side", FloodTopic, [FloodMsg EXCEPT !.Sender = "side"])

FloodDeliver == \E t \in Pubs : BusPublishDeliver(t)

\* The drain loop (bus_test.go:331-339), once every Publish has returned.
FloodDrain ==
    /\ published = MaxPublish
    /\ BusReceive(1)

FloodNext ==
    \/ FloodPublish
    \/ FloodSidePublish
    \/ FloodDeliver
    \/ FloodDrain

-----------------------------------------------------------------------------
(* The flood with a second subscriber that joins while it runs: one queue   *)
(* fills up while the other still has room.                                 *)

\* Patterns the second subscriber may subscribe under: the topic itself and
\* the empty pattern.
LatePatterns == {FloodTopic, <<>>}

LateSubscribe ==
    /\ Len(busSubs) = 1
    /\ \E pattern \in LatePatterns : BusSubscribe(pattern)

BackpressureNext ==
    \/ FloodPublish
    \/ FloodDeliver
    \/ LateSubscribe

-----------------------------------------------------------------------------
(* Clients of one bus: two publisher threads, and Subscribe, Unsubscribe,   *)
(* Close and receives in any order (bus_test.go:243-373).                   *)

\* Subscriptions made by the clients.
MaxSubs == 2

\* Publish calls made by the clients.
MaxBusPublish == 2

BusPatterns == {<<"consensus">>, <<"consensus", ".", "s1">>}

BusTopics == {<<"consensus", ".", "s1">>, <<"consensus", ".", "s2">>}

ClientSubscribe ==
    /\ Len(busSubs) < MaxSubs
    /\ \E pattern \in BusPatterns : BusSubscribe(pattern)

ClientPublish ==
    /\ Started < MaxBusPublish
    /\ \E t \in Pubs, topic \in BusTopics : BusPublishBuild(t, topic, FloodMsg)

ClientDeliver == \E t \in Pubs : BusPublishDeliver(t)

ClientReceive == \E i \in 1..Len(busSubs) : BusReceive(i)

ClientUnsubscribe == \E pattern \in BusPatterns : BusUnsubscribe(pattern)

ClientClose == BusClose

ClientNext ==
    \/ ClientSubscribe
    \/ ClientPublish
    \/ ClientDeliver
    \/ ClientReceive
    \/ ClientUnsubscribe
    \/ ClientClose

-----------------------------------------------------------------------------
(* TopicMatch as a function of its arguments *)

\* Longest pattern or topic, in characters.
MaxTopicLen == 4

TopicChars == {"a", "b", "."}

RECURSIVE Strings(_)
\* The strings of at most n characters.
Strings(n) ==
    IF n = 0 THEN {<<>>}
    ELSE Strings(n - 1) \cup { Append(w, c) : w \in { v \in Strings(n - 1) : Len(v) = n - 1 }, c \in TopicChars }

NoCall == <<>>

\* No directory argument.
NoDir == [stat |-> "none", entries |-> <<>>]

TopicInit ==
    /\ tmPattern \in Strings(MaxTopicLen)
    /\ tmTopic \in Strings(MaxTopicLen)
    /\ tmResult = NoCall

\* The pure functions at rest.
PureIdle ==
    /\ tmPattern = <<>>
    /\ tmTopic = <<>>
    /\ tmResult = NoCall
    /\ boardLines = <<>>
    /\ boardMax = 0
    /\ boardResult = NoCall
    /\ boardDir = NoDir
    /\ dirResult = NoCall

CallTopicMatch ==
    /\ tmResult = NoCall
    /\ tmResult' = <<TopicMatch(tmPattern, tmTopic)>>
    /\ UNCHANGED <<tmPattern, tmTopic, boardLines, boardMax, boardResult, boardDir, dirResult>>
    /\ UNCHANGED <<consVars, ralphVars, busVars>>

TopicNext == CallTopicMatch

-----------------------------------------------------------------------------
(* ReadBoard (internal/ralph board): the retention of the bulletin board    *)

\* Lines in the board files.
MaxLines == 4

\* A line is a warning envelope, another envelope, or does not parse.
LineKinds == {"board.warning", "board.discovery", "garbage"}

RECURSIVE LineSeqs(_)
LineSeqs(n) ==
    IF n = 0 THEN {<<>>}
    ELSE LineSeqs(n - 1) \cup { Append(w, k) : w \in { v \in LineSeqs(n - 1) : Len(v) = n - 1 }, k \in LineKinds }

RECURSIVE Scan(_, _)
\* The scan loop: every line that unmarshals is appended to all; Sender
\* records the line the envelope came from.
Scan(lines, n) ==
    IF n = 0 THEN <<>>
    ELSE IF lines[n] = "garbage" THEN Scan(lines, n - 1)
         ELSE Append(Scan(lines, n - 1), [Type |-> lines[n], Sender |-> n])

IsWarning(e) == e.Type = "board.warning"

Warnings(all) == SelectSeq(all, IsWarning)

Others(all) == SelectSeq(all, LAMBDA e : ~IsWarning(e))

LastN_Oldest(q, n) == SubSeq(q, 1, n)

\* The last n envelopes of a sequence.
LastN(q, n) == SubSeq(q, Len(q) - n + 1, Len(q))

CapOthers_CapsAll(warnings, others, maxMessages) ==
    LET both == warnings \o others
        keep == Max(maxMessages, 0)
    IN  IF Len(both) > keep THEN LastN(both, keep) ELSE both

\* The cap on the non-warning messages, and the result.
CapOthers(warnings, others, maxMessages) ==
    LET remaining == Max(maxMessages - Len(warnings), 0)
    IN  warnings \o (IF Len(others) > remaining THEN LastN(others, remaining) ELSE others)

ReadBoard(lines, maxMessages) ==
    LET all == Scan(lines, Len(lines))
    IN  IF Len(all) = 0 THEN <<>>
        ELSE CapOthers(Warnings(all), Others(all), maxMessages)

BoardInit ==
    /\ boardLines \in LineSeqs(MaxLines)
    /\ boardMax \in (0 - 1)..MaxLines
    /\ boardResult = NoCall

CallReadBoard ==
    /\ boardResult = NoCall
    /\ boardResult' = <<ReadBoard(boardLines, boardMax)>>
    /\ UNCHANGED <<tmPattern, tmTopic, tmResult, boardLines, boardMax, boardDir, dirResult>>
    /\ UNCHANGED <<consVars, ralphVars, busVars>>

BoardNext == CallReadBoard

-----------------------------------------------------------------------------
(* ReadBoard on a directory: the files it scans and the lines it reads      *)

\* Lines in one board file.
MaxFileLines == 2

\* A line of a file is one of LineKinds or is longer than the scanner's
\* buffer (bufio.MaxScanTokenSize).
FileLineKinds == LineKinds \cup {"oversized"}

RECURSIVE SeqsOver(_, _)
\* The sequences of at most n elements of a set.
SeqsOver(S, n) ==
    IF n = 0 THEN {<<>>}
    ELSE SeqsOver(S, n - 1) \cup { Append(w, x) : w \in { v \in SeqsOver(S, n - 1) : Len(v) = n - 1 }, x \in S }

\* A directory entry is a subdirectory, a file without the .jsonl suffix, a
\* .jsonl file that cannot be opened, or a .jsonl file with its lines.
DirEntries ==
    {[kind |-> "dir", lines |-> <<>>]}
    \cup {[kind |-> k, lines |-> <<"board.warning">>] : k \in {"other", "locked"}}
    \cup {[kind |-> "jsonl", lines |-> l] : l \in SeqsOver(FileLineKinds, MaxFileLines)}

\* The directory does not exist, cannot be read, or is read as its entries
\* in name order.
Dirs ==
    {[stat |-> st, entries |-> <<>>] : st \in {"missing", "denied"}}
    \cup {[stat |-> "ok", entries |-> <<>>]}
    \cup {[stat |-> "ok", entries |-> <<a>>] : a \in DirEntries}
    \cup {[stat |-> "ok", entries |-> <<a, b>>] : a, b \in DirEntries}

\* A maxMessages that keeps every line of a directory of two files.
Uncapped == MaxFileLines + MaxFileLines

ErrReadDir == <<"permission", "denied">>

MissingIsEmpty_Never(dir) == FALSE

\* os.IsNotExist(err) on the error of os.ReadDir.
MissingIsEmpty(dir) == dir.stat = "missing"

\* Position of the first oversized line, or 0.
FirstOversized(lines) ==
    IF \E k \in 1..Len(lines) : lines[k] = "oversized"
    THEN CHOOSE k \in 1..Len(lines) : lines[k] = "oversized" /\ \A j \in 1..(k - 1) : lines[j] # "oversized"
    ELSE 0

\* The lines scanner.Scan() yields: Scan returns false at the end of the file
\* and at the first line that does not fit the scanner's buffer.
Scannable(lines) ==
    IF FirstOversized(lines) = 0 THEN lines ELSE SubSeq(lines, 1, FirstOversized(lines) - 1)

\* The envelopes read from file f; Sender records the file and the line.
FileEnvelopes(f, lines) ==
    LET got == Scan(Scannable(lines), Len(Scannable(lines)))
    IN  [k \in 1..Len(got) |-> [Type |-> got[k].Type, Sender |-> <<f, got[k].Sender>>]]

RECURSIVE ScanDir(_, _)
\* The loop over the entries: subdirectories, files without the suffix and
\* files that do not open are passed over.
ScanDir(entries, n) ==
    IF n = 0 THEN <<>>
    ELSE IF entries[n].kind \in {"dir", "other"} THEN ScanDir(entries, n - 1)
         ELSE IF entries[n].kind = "locked" THEN ScanDir(entries, n - 1)
              ELSE ScanDir(entries, n - 1) \o FileEnvelopes(n, entries[n].lines)

ReadBoardDir(dir, maxMessages) ==
    IF dir.stat # "ok"
    THEN IF MissingIsEmpty(dir) THEN [result |-> <<>>, err |-> Nil]
         ELSE [result |-> <<>>, err |-> ErrReadDir]
    ELSE LET all == ScanDir(dir.entries, Len(dir.entries))
         IN  [result |-> IF Len(all) = 0 THEN <<>>
                         ELSE CapOthers(Warnings(all), Others(all), maxMessages),
              err |-> Nil]

\* maxMessages is 0 or large enough to keep every line of the directory.
DirInit ==
    /\ boardDir \in Dirs
    /\ boardMax \in {0, Uncapped}
    /\ dirResult = NoCall

CallReadBoardDir ==
    /\ boardDir # NoDir
    /\ dirResult = NoCall
    /\ dirResult' = <<ReadBoardDir(boardDir, boardMax)>>
    /\ UNCHANGED <<tmPattern, tmTopic, tmResult, boardLines, boardMax, boardResult, boardDir>>
    /\ UNCHANGED <<consVars, ralphVars, busVars>>

DirNext == CallReadBoardDir

-----------------------------------------------------------------------------
(* Specifications *)

InitConsensus == ConsensusInit /\ RalphInit /\ BusIdle /\ PureIdle

NextConsensus == ConsensusNext

SpecConsensus == InitConsensus /\ [][NextConsensus]_vars

\* The consensus orchestrator at rest.
ConsensusIdle ==
    /\ agents = <<>>
    /\ chairmen = <<>>
    /\ cpc = "idle"
    /\ available = <<>>
    /\ gstate = <<>>
    /\ results = <<>>
    /\ returned = <<>>
    /\ doneOrder = <<>>
    /\ start2 = 0
    /\ now = 0
    /\ deadline1 = 0
    /\ deadline2 = 0
    /\ chairIdx = 0
    /\ chairRunning = FALSE
    /\ chairStart = 0
    /\ chairRet = <<>>
    /\ calls = <<>>
    /\ succeeded = 0
    /\ chairmanPrompt = Nil
    /\ ret = [result |-> <<>>, err |-> Nil]

InitRalph == RalphInit /\ ConsensusIdle /\ BusIdle /\ PureIdle

NextRalph == RalphNext

SpecRalph == InitRalph /\ [][NextRalph]_vars

InitRalphSolo == InitRalph

NextRalphSolo == RalphSoloNext

SpecRalphSolo == InitRalphSolo /\ [][NextRalphSolo]_vars /\ RalphFairness

InitFlood == FloodInit /\ ConsensusIdle /\ RalphInit /\ PureIdle

NextFlood == FloodNext

SpecFlood == InitFlood /\ [][NextFlood]_vars

InitBackpressure == InitFlood

NextBackpressure == BackpressureNext

SpecBackpressure == InitBackpressure /\ [][NextBackpressure]_vars

InitBus == BusIdle /\ ConsensusIdle /\ RalphInit /\ PureIdle

NextBus == ClientNext

SpecBus == InitBus /\ [][NextBus]_vars

InitTopic ==
    /\ TopicInit
    /\ boardLines = <<>> /\ boardMax = 0 /\ boardResult = NoCall
    /\ boardDir = NoDir /\ dirResult = NoCall
    /\ ConsensusIdle /\ RalphInit /\ BusIdle

NextTopic == TopicNext

SpecTopic == InitTopic /\ [][NextTopic]_vars

InitBoard ==
    /\ BoardInit
    /\ boardDir = NoDir /\ dirResult = NoCall
    /\ tmPattern = <<>> /\ tmTopic = <<>> /\ tmResult = NoCall
    /\ ConsensusIdle /\ RalphInit /\ BusIdle

NextBoard == BoardNext

SpecBoard == InitBoard /\ [][NextBoard]_vars

InitDir ==
    /\ DirInit
    /\ boardLines = <<>> /\ boardResult = NoCall
    /\ tmPattern = <<>> /\ tmTopic = <<>> /\ tmResult = NoCall
    /\ ConsensusIdle /\ RalphInit /\ BusIdle

NextDir == DirNext

SpecDir == InitDir /\ [][NextDir]_vars

-----------------------------------------------------------------------------
(* Properties of the consensus orchestrator *)

\* Stage 1 has been joined: RunConsensus is past runStage1WithPrompt.
Stage1Joined == cpc \in {"stage2", "done"} \/ (cpc = "failed" /\ available # <<>>)

Stage2Calls == SelectSeq(calls, LAMBDA c : c.stage = 2)

\* How often Run was invoked on chairman candidate j.
ChairCalls(j) ==
    Cardinality({ k \in 1..Len(calls) : calls[k] = [stage |-> 2, name |-> chairmen[j].name] })

\* The number of Stage-1 Run calls that returned a nil error.
ReturnedOk == Cardinality({ i \in 1..Len(returned) : returned[i].err = Nil })

ChairRejected(j) ==
    chairRet[j] # NoReturn /\ (chairRet[j].err # Nil \/ chairRet[j].out = Nil)

\* C2: the tally is not computed and no chairman's Run is invoked until every
\* Stage-1 Run call has returned.
C2_Stage1Barrier ==
    (Stage1Joined \/ Stage2Calls # <<>>) =>
        \A i \in 1..Len(available) : gstate[i] = "returned" /\ returned[i] # NoReturn

\* Stage 2 was entered after an agent was cut off by the Stage-1 deadline.
C2_Witness ==
    /\ cpc = "stage2"
    /\ Len(available) >= 2
    /\ \E i \in 1..Len(returned) : returned[i].err = ErrDeadline

\* C6: RunStage2 walks the list in order, skips unavailable candidates,
\* returns the first candidate whose Run gave no error and a non-empty
\* output, passes over the others and invokes none after the accepted one.
C6_ChairmanFallback ==
    /\ \A j \in 1..Len(chairmen) :
        /\ ChairCalls(j) <= 1
        /\ ~chairmen[j].available => ChairCalls(j) = 0
        /\ ChairCalls(j) = 1 =>
            \A h \in 1..(j - 1) : ~chairmen[h].available \/ ChairRejected(h)
    /\ cpc = "done" =>
        \E c \in 1..Len(chairmen) :
            /\ ret.result[1].ChairmanName = chairmen[c].name
            /\ ret.result[1].ChairmanOutput = chairRet[c].out
            /\ chairmen[c].available
            /\ chairRet[c].err = Nil
            /\ chairRet[c].out # Nil
            /\ \A h \in 1..(c - 1) : ~chairmen[h].available \/ ChairRejected(h)
            /\ \A h \in (c + 1)..Len(chairmen) : ChairCalls(h) = 0

\* The second candidate was chosen after the first one failed.
C6_Witness ==
    /\ cpc = "done"
    /\ Len(chairmen) = 2
    /\ ret.result[1].ChairmanName = chairmen[2].name
    /\ ChairRejected(1)

\* What agent a returns when it runs alone under the Stage-1 deadline.
SoloOutcomes(a) ==
    IF a.delay = 0 \/ ~a.coop \/ a.delay < Stage1Timeout
    THEN { [out |-> a.response, err |-> a.err] }
    ELSE IF a.delay = Stage1Timeout
    THEN { [out |-> a.response, err |-> a.err], [out |-> Nil, err |-> ErrDeadline] }
    ELSE { [out |-> Nil, err |-> ErrDeadline] }

\* C7: every Stage-1 agent's outcome is its own (what it returns alone), is
\* recorded at its place in Stage1Results, and counts as succeeded exactly
\* when its error is nil.
C7_IndependentOutcomes ==
    /\ \A i \in 1..Len(returned) :
        returned[i] # NoReturn =>
            /\ returned[i] \in SoloOutcomes(available[i])
            /\ results[i] = [Agent |-> available[i].name, Output |-> returned[i].out,
                             Err |-> returned[i].err]
    /\ Stage1Joined =>
        /\ Len(results) = Len(available)
        /\ \A i \in 1..Len(results) : results[i].Agent = available[i].name
        /\ succeeded = ReturnedOk
    /\ cpc = "done" => ret.result[1].Stage1Results = results

\* One agent succeeded in time while another was cut off by the deadline.
C7_Witness ==
    /\ Stage1Joined
    /\ \E i, j \in 1..Len(results) :
        /\ results[i].Err = ErrDeadline
        /\ results[j].Err = Nil /\ available[j].delay > 0

NoAgentAvailable == \A i \in 1..Len(agents) : ~agents[i].available

\* C8: with no available agent RunConsensus fails with "no agents
\* available", returns no result and invokes no Run.
C8_NoAgentsAvailable ==
    NoAgentAvailable =>
        /\ calls = <<>>
        /\ cpc \in {"idle", "failed"}
        /\ cpc = "failed" =>
            /\ Contains(ret.err, <<"no", "agents", "available">>)
            /\ ret.result = <<>>

C8_Witness ==
    /\ NoAgentAvailable
    /\ cpc = "failed"
    /\ \E j \in 1..Len(chairmen) : chairmen[j].available

\* C9: zero Stage-1 successes end the run with "all agents failed", no
\* result and no chairman call; one success or more leads to Stage 2, and a
\* partial success is not an error.
C9_TallyOutcome ==
    Stage1Joined =>
        /\ ReturnedOk = 0 =>
            /\ cpc = "failed"
            /\ Contains(ret.err, <<"all", "agents", "failed">>)
            /\ ret.result = <<>>
            /\ Stage2Calls = <<>>
        /\ ReturnedOk >= 1 =>
            /\ cpc = "failed" => Contains(ret.err, <<"stage", "2", "failed:">>)
            /\ cpc = "done" =>
                /\ ret.err = Nil
                /\ ret.result[1].AgentsSucceeded = ReturnedOk

\* A run with one failed and one successful agent returned a result.
C9_Witness ==
    /\ cpc = "done"
    /\ Len(available) = 2
    /\ ReturnedOk = 1

AllChairmenFailed ==
    \A j \in 1..Len(chairmen) : ~chairmen[j].available \/ ChairRejected(j)

Stage2Failure(text) ==
    (AllChairmenFailed /\ chairIdx >= 1) =>
        /\ cpc \in {"stage2", "failed"}
        /\ cpc = "failed" =>
            /\ Contains(ret.err, text)
            /\ ret.result = <<>>
        /\ \A j \in 1..Len(chairmen) : ChairCalls(j) <= 1

\* C10 as stated: when every chairman candidate is unavailable, errors or
\* returns empty output, the run fails with "all chairman candidates
\* failed", returns no result and retries no candidate.
C10_Original == Stage2Failure(<<"all", "chairman", "candidates", "failed">>)

\* C10 as amended: the same, the error reading "stage 2 failed: all chairman
\* agents failed".
C10_Stage2Failure ==
    Stage2Failure(<<"stage", "2", "failed:", "all", "chairman", "agents", "failed">>)

\* Both candidates were invoked and rejected, and the run failed.
C10_Witness ==
    /\ cpc = "failed"
    /\ Len(chairmen) = 2
    /\ ChairRejected(1) /\ ChairRejected(2)

\* RunConsensus has built the chairman prompt and entered Stage 2.
Stage2Entered == cpc \in {"stage2", "done"} \/ (cpc = "failed" /\ chairIdx >= 1)

\* The entries of a result slice whose error is nil.
NilErr(rs) == { i \in 1..Len(rs) : rs[i].Err = Nil }

\* C11: in every returned ConsensusResult AgentsSucceeded is the number of
\* Stage1Results entries with a nil error, and at least 1; an entry with an
\* error counts as failed even with a non-empty output, and neither its label
\* nor its output is in the chairman prompt.
C11_SuccessIsNilError ==
    /\ cpc = "done" =>
        /\ ret.result[1].AgentsSucceeded = Cardinality(NilErr(ret.result[1].Stage1Results))
        /\ ret.result[1].AgentsSucceeded >= 1
    /\ Stage2Entered =>
        \A i \in 1..Len(results) :
            results[i].Err # Nil =>
                /\ ~Contains(chairmanPrompt, <<results[i].Agent>>)
                /\ results[i].Output # Nil => ~Contains(chairmanPrompt, results[i].Output)

\* A result was returned after one of two agents gave output with an error.
C11_Witness ==
    /\ cpc = "done"
    /\ Len(results) = 2
    /\ ret.result[1].AgentsSucceeded = 1
    /\ \E i \in 1..Len(results) : results[i].Output # Nil /\ results[i].Err = ErrAPI

\* The analyses of the agents from position i on, in agent-list order, of
\* those whose Run call returned no error.
RECURSIVE AnalysesFrom(_)
AnalysesFrom(i) ==
    IF i > Len(available) THEN <<>>
    ELSE (IF returned[i].err = Nil
          THEN <<"---", available[i].name, "Analysis ---">> \o returned[i].out
          ELSE <<>>) \o AnalysesFrom(i + 1)

\* C12: Stage1Results and the chairman prompt are determined by what each
\* agent returned, taken in agent-list order, whatever the order in which the
\* Run calls completed; runs with the same outcomes have the same prompt.
C12_OrderDeterminism ==
    /\ Stage1Joined =>
        /\ available = SelectSeq(agents, LAMBDA a : a.available)
        /\ results = [i \in 1..Len(available) |->
                        [Agent |-> available[i].name, Output |-> returned[i].out,
                         Err |-> returned[i].err]]
    /\ Stage2Entered =>
        chairmanPrompt =
            <<"Compile consensus from", ToString(ReturnedOk), "of",
              ToString(Len(available)), "analyses.">> \o AnalysesFrom(1)
    /\ cpc = "done" => ret.result[1].Stage1Results = results

\* The prompt was built after the second agent completed before the first,
\* both with success.
C12_Witness ==
    /\ Stage2Entered
    /\ doneOrder = <<2, 1>>
    /\ returned[1].err = Nil /\ returned[2].err = Nil

\* C13: the Stage-2 deadline is stage2Timeout after Stage 2 began, however
\* much of the Stage-1 deadline was used, and no chairman is cut off by the
\* deadline before that.
C13_IndependentDeadlines ==
    Stage2Entered =>
        /\ deadline2 = start2 + Stage2Timeout
        /\ \A j \in 1..Len(chairmen) :
            (chairRet[j].err = ErrDeadline /\ chairmen[j].err # ErrDeadline) =>
                now >= start2 + Stage2Timeout

\* A Stage-1 agent ran into the Stage-1 deadline, and a chairman was then cut
\* off exactly stage2Timeout after Stage 2 began.
C13_Witness ==
    /\ Stage2Entered
    /\ \E i \in 1..Len(returned) : returned[i].err = ErrDeadline
    /\ start2 >= deadline1
    /\ \E j \in 1..Len(chairmen) : chairRet[j].err = ErrDeadline
    /\ now = start2 + Stage2Timeout

\* C14 as stated: once the Stage-1 deadline has expired Stage 1 is over, also
\* when an agent's Run has not returned.
C14_StragglersNotAwaited == cpc = "stage1" => now <= deadline1

\* The agents whose Available() is true, in list order.
AvailableAgents == SelectSeq(agents, LAMBDA a : a.available)

\* The Stage-1 Run calls made so far.
Stage1Calls == SelectSeq(calls, LAMBDA c : c.stage = 1)

\* C38: Run is never invoked on an agent whose Available() is false, in
\* Stage 1 or in Stage 2; when Stage 1 is launched Run is invoked exactly
\* once on each available agent, and never again in Stage 1; and
\* Stage1Results of a returned result has exactly one entry per available
\* agent and none for another.
C38_OnlyAvailableRun ==
    [][/\ \A k \in (Len(calls) + 1)..Len(calls') :
            /\ calls'[k].stage = 1 =>
                \E i \in 1..Len(agents) :
                    agents[i].available /\ agents[i].name = calls'[k].name
            /\ calls'[k].stage = 2 =>
                \E j \in 1..Len(chairmen) :
                    chairmen[j].available /\ chairmen[j].name = calls'[k].name
       /\ (cpc = "idle" /\ cpc' # "idle") =>
            /\ Len(Stage1Calls') = Len(AvailableAgents)
            /\ \A i \in 1..Len(AvailableAgents) :
                \E k \in 1..Len(Stage1Calls') :
                    Stage1Calls'[k].name = AvailableAgents[i].name
       /\ cpc # "idle" => Stage1Calls' = Stage1Calls
       /\ (cpc # "done" /\ cpc' = "done") =>
            LET rs == ret'.result[1].Stage1Results
            IN  /\ Len(rs) = Len(AvailableAgents)
                /\ \A i \in 1..Len(AvailableAgents) :
                    \E k \in 1..Len(rs) : rs[k].Agent = AvailableAgents[i].name]_vars

\* A run returned a result although the first agent and the first chairman
\* candidate were unavailable: neither was run.
C38_Witness ==
    /\ cpc = "done"
    /\ Len(agents) = 2 /\ ~agents[1].available /\ agents[2].available
    /\ Len(chairmen) = 2 /\ ~chairmen[1].available
    /\ calls = << [stage |-> 1, name |-> agents[2].name],
                  [stage |-> 2, name |-> chairmen[2].name] >>
    /\ Len(ret.result[1].Stage1Results) = 1

\* C39: the Stage-2 deadline is fixed once when Stage 2 begins and is the
\* deadline of every candidate: a candidate invoked when it has expired is
\* cut off at once, without a timeout of its own.
C39_SharedDeadline ==
    [][ /\ cpc = "stage2" => deadline2' = deadline2
        /\ ( /\ cpc = "stage2" /\ chairRunning /\ ~chairRunning'
             /\ chairStart >= deadline2
             /\ chairmen[chairIdx].delay > 0 )
           => /\ now = chairStart
              /\ chairRet'[chairIdx].err = ErrDeadline ]_vars

\* The deadline expired while the first candidate was running, and the
\* second candidate, invoked after that, was cut off in the same instant.
C39_Witness ==
    /\ Len(chairmen) = 2
    /\ chairRet[1].err = ErrDeadline
    /\ chairRet[2].err = ErrDeadline
    /\ chairmen[2].delay > 0
    /\ chairStart >= deadline2
    /\ now = chairStart

-----------------------------------------------------------------------------
(* Properties of the ralph-run retry loop *)

\* Invocation p has acquired the lock and has not yet finished its exit.
Active(p) ==
    run[p].pc \in {"init", "load", "prepare", "implRunning", "testsRunning", "cleanup", "release"}

InGate(p) == run[p].pc \in {"implRunning", "testsRunning"}

\* C1: at most one invocation per directory is past Acquire; the one that
\* is holds the lock from Acquire until its exit, and only it runs gates.
C1_OneActiveLoop ==
    /\ \A p, q \in Runs : (Active(p) /\ Active(q)) => p = q
    /\ \A p \in Runs : Active(p) => lock = p
    /\ \A p \in Runs : InGate(p) => (lock = p /\ \A q \in Runs \ {p} : ~InGate(q))

\* One invocation is running a gate while another one has been turned away.
C1_Witness ==
    \E p, q \in Runs :
        /\ InGate(p)
        /\ run[q].pc = "exit" /\ run[q].err = ErrLockHeld

\* Invocation p has left its loop after state loads that all succeeded and
\* Implementation gates that all failed.
ImplAlwaysFailed(p) ==
    /\ run[p].pc = "cleanup"
    /\ run[p].implPassed = 0
    /\ run[p].loadErrors = 0

Exhaustion(p, evaluations, attempts) ==
    /\ run[p].checks = evaluations
    /\ run[p].implAttempts = attempts
    /\ run[p].handoffs = 1
    /\ run[p].err = ErrMaxIterations

InLoop(p) == run[p].pc \in {"load", "prepare", "implRunning", "testsRunning"}

\* The persisted state is not that of invocation p.
NoStateOf(p) == stateFile = <<>> \/ stateFile[1].TaskID # p

\* In this step invocation p reaches Acquire, or the --task check before it,
\* while the lock is held.
TurnedAway(p) == run[p].pc = "start" /\ lock # 0 /\ run'[p] # run[p]

\* C15: an invocation that finds the lock held fails in that one step and
\* touches nothing: the persisted state and context, the holder's lock and
\* the other invocations are as before, and it handed nothing off.
C15_NoSideEffects ==
    [][\A p \in Runs :
        TurnedAway(p) =>
            /\ run'[p].pc = "exit"
            /\ run'[p].returned
            /\ run'[p].err \in {ErrLockHeld, ErrTaskRequired}
            /\ run'[p].handoffs = 0
            /\ lock' = lock
            /\ stateFile' = stateFile
            /\ contextFile' = contextFile
            /\ \A q \in Runs \ {p} : run'[q] = run[q]]_vars

\* One invocation was turned away; the holder's lock, state and context are
\* in place and it is retrying.
C15_Witness ==
    \E p, q \in Runs :
        /\ run[p].pc = "exit" /\ run[p].err = ErrLockHeld /\ run[p].handoffs = 0
        /\ lock = q
        /\ InLoop(q)
        /\ stateFile # <<>> /\ stateFile[1].TaskID = q /\ stateFile[1].Iteration = 2
        /\ contextFile # Nil

\* C16: an invocation that has exited holds no lock and has left no state
\* behind; with the lock free there is no persisted state or context.
C16_ReleasedOnExit ==
    /\ \A p \in Runs : run[p].pc = "exit" => (lock # p /\ NoStateOf(p))
    /\ lock = 0 => (stateFile = <<>> /\ contextFile = Nil)

\* One invocation ended in exhaustion and another in a state error; the lock
\* is free and nothing is persisted.
C16_Witness ==
    /\ lock = 0
    /\ stateFile = <<>>
    /\ \E p, q \in Runs :
        /\ run[p].pc = "exit" /\ run[p].err = ErrMaxIterations
        /\ run[q].pc = "exit" /\ run[q].err \in {ErrInit, ErrLoad}

\* In this step a gate of invocation p ends with an error.
GateFailsIn(p) ==
    \/ run[p].pc = "implRunning" /\ run'[p].implErr = ErrGate
    \/ run[p].pc = "testsRunning" /\ run'[p].testErr = ErrGate

\* C17: Iteration is 1 when the state is created, goes up by one in a step
\* in which the Implementation or the Tests gate fails and is unchanged by
\* every other step; it stays within 1..MaxIterations+1 when MaxIterations
\* is not negative.
C17_Iteration ==
    [][/\ (stateFile = <<>> /\ stateFile' # <<>>) => stateFile'[1].Iteration = 1
       /\ (stateFile # <<>> /\ stateFile' # <<>>) =>
            stateFile'[1].Iteration =
                stateFile[1].Iteration + (IF \E p \in Runs : GateFailsIn(p) THEN 1 ELSE 0)
       /\ (stateFile' # <<>> /\ stateFile'[1].MaxIterations >= 0) =>
            /\ 1 <= stateFile'[1].Iteration
            /\ stateFile'[1].Iteration <= stateFile'[1].MaxIterations + 1]_vars

\* After an Implementation failure and a Tests failure Iteration is 3, the
\* most --max-iterations 2 allows.
C17_Witness ==
    /\ stateFile # <<>>
    /\ stateFile[1].Iteration = 3
    /\ stateFile[1].MaxIterations = 2
    /\ \E p \in Runs : run[p].pc = "load" /\ run[p].implErr = Nil /\ run[p].testErr = ErrGate

\* In this step invocation p, inside the loop, returns an error.
FailsInLoop(p) == InLoop(p) /\ run'[p].returned /\ run'[p].err # Nil

ByExhaustion(p) ==
    /\ run[p].pc = "load"
    /\ run'[p].err = ErrMaxIterations
    /\ stateFile # <<>>
    /\ stateFile[1].Iteration > stateFile[1].MaxIterations

ByLoadError(p) == run[p].pc = "load" /\ run'[p].err = ErrLoad

\* C18 as stated: a failing gate sends the loop back to its top without
\* returning, and the loop returns an error only from the exhaustion check.
C18_Original ==
    [][\A p \in Runs :
        /\ GateFailsIn(p) => (run'[p].pc = "load" /\ ~run'[p].returned)
        /\ FailsInLoop(p) => ByExhaustion(p)]_vars

\* C18 as amended: the loop returns an error only from the exhaustion check
\* or from a failed state load.
C18_RetryUntilExhausted ==
    [][\A p \in Runs :
        /\ GateFailsIn(p) => (run'[p].pc = "load" /\ ~run'[p].returned)
        /\ FailsInLoop(p) => (ByExhaustion(p) \/ ByLoadError(p))]_vars

\* The Implementation gate is running for the second time, after a failure.
C18_Witness ==
    \E p \in Runs :
        /\ run[p].pc = "implRunning"
        /\ run[p].implAttempts = 2
        /\ ~run[p].returned
        /\ stateFile # <<>> /\ stateFile[1].Iteration = 2

C20_StuckBookkeeping ==
    [][/\ (stateFile # <<>> /\ stateFile' # <<>>) =>
            stateFile'[1].StuckCount =
                IF \E p \in Runs : GateFailsIn(p)
                THEN (IF contextFile' = contextFile THEN stateFile[1].StuckCount + 1 ELSE 0)
                ELSE stateFile[1].StuckCount
       /\ stateFile' # <<>> => stateFile'[1].StuckCount >= 0]_vars

\* The Tests gate failed with the output the Implementation gate had failed
\* with before: StuckCount is 1.
C20_Witness ==
    /\ stateFile # <<>>
    /\ stateFile[1].StuckCount = 1
    /\ stateFile[1].Iteration = 3
    /\ \E p \in Runs : run[p].pc = "load" /\ run[p].testErr = ErrGate

\* In this step invocation p starts an iteration's Implementation attempt.
StartsAttempt(p) == run[p].pc = "prepare" /\ run'[p].pc = "implRunning"

\* C21: an attempt started with the loaded StuckCount at or above the
\* threshold has the directive at the head of its prompt and adds one to
\* StrategyShiftCount; one started below the threshold has no directive in
\* its prompt and leaves StrategyShiftCount alone.
C21_StrategyShift ==
    [][\A p \in Runs :
        StartsAttempt(p) =>
            IF run[p].state[1].StuckCount >= run[p].stuckThreshold
            THEN /\ SubSeq(run'[p].prompt, 1, Len(StuckDirective) + Len(Task))
                        = StuckDirective \o Task
                 /\ stateFile'[1].StrategyShiftCount = stateFile[1].StrategyShiftCount + 1
            ELSE /\ ~Contains(run'[p].prompt, StuckDirective)
                 /\ SubSeq(run'[p].prompt, 1, Len(Task)) = Task
                 /\ stateFile'[1].StrategyShiftCount = stateFile[1].StrategyShiftCount]_vars

\* The third attempt runs with the directive after two equal failures.
C21_Witness ==
    \E p \in Runs :
        /\ run[p].pc = "implRunning"
        /\ run[p].stuckThreshold = 1
        /\ run[p].state[1].StuckCount = 1
        /\ run[p].implAttempts = 3
        /\ Contains(run[p].prompt, StuckDirective)
        /\ stateFile[1].StrategyShiftCount = 1

\* In this step the Tests gate of invocation p passes (the Implementation
\* gate passed before it in the same iteration).
TestsPassIn(p) == run[p].pc = "testsRunning" /\ run'[p].testErr = Nil

StartsTests(p) == run[p].pc # "testsRunning" /\ run'[p].pc = "testsRunning"

\* The Implementation gate of invocation p is launched in this step.
StartsImpl(p) == run[p].pc # "implRunning" /\ run'[p].pc = "implRunning"

\* C34: the Tests gate is launched only when the Implementation gate of the
\* same iteration has ended without error, and no other gate runs then; the
\* Implementation gate of attempt k is launched from the top of the loop,
\* when no gate runs and the persisted state, as it was just loaded, is at
\* iteration k, so that the bookkeeping of the k - 1 failed iterations is done.
C34_GateOrdering ==
    [][\A p \in Runs :
            /\ StartsTests(p) =>
                 /\ run[p].pc = "implRunning"
                 /\ \A q \in Runs \ {p} : ~InGate(q)
                 /\ run'[p].implErr = Nil
                 /\ run'[p].testAttempts = run[p].testAttempts + 1
                 /\ run'[p].implPassed = run'[p].testAttempts
                 /\ stateFile[1].Iteration = run[p].implAttempts
            /\ StartsImpl(p) =>
                 /\ run[p].pc = "prepare"
                 /\ \A q \in Runs : ~InGate(q)
                 /\ run[p].state[1].Iteration = stateFile[1].Iteration
                 /\ stateFile[1].Iteration = run'[p].implAttempts]_vars

\* The Tests gate of a second iteration runs, after the first iteration's
\* Tests gate failed: both Implementation gates had passed.
C34_Witness ==
    \E p \in Runs :
        /\ run[p].pc = "testsRunning"
        /\ run[p].implAttempts = 2
        /\ run[p].implPassed = 2
        /\ run[p].testAttempts = 2
        /\ stateFile[1].Iteration = 2

\* Invocation p has left its loop.
LeftLoop(p) == run[p].pc = "cleanup"

\* Gates attempted by invocation p stay within its --max-iterations.
WithinBudget(p) ==
    /\ run[p].implAttempts <= Max(run[p].maxIter, 0)
    /\ run[p].testAttempts <= run[p].implAttempts
    /\ (LeftLoop(p) /\ run[p].maxIter <= 0) =>
          /\ run[p].implAttempts = 0
          /\ run[p].testAttempts = 0

\* C35 as stated: the loop ends in success or in exhaustion, within its
\* budget of attempts, and with MaxIterations <= 0 in a hand-off.
C35_Original ==
    \A p \in Runs :
        /\ WithinBudget(p)
        /\ LeftLoop(p) => run[p].err \in {Nil, ErrMaxIterations}
        /\ (LeftLoop(p) /\ run[p].maxIter <= 0) => run[p].handoffs = 1

\* C35 as amended: every loop that is entered is left, in success, in
\* exhaustion or on a failed state load; the Implementation gate is attempted
\* at most max(MaxIterations, 0) times; with MaxIterations <= 0 no gate is
\* attempted, and the run hands off unless the state load fails.
C35_Termination ==
    /\ [](\A p \in Runs :
            /\ WithinBudget(p)
            /\ LeftLoop(p) => run[p].err \in {Nil, ErrMaxIterations, ErrLoad}
            /\ (LeftLoop(p) /\ run[p].maxIter <= 0 /\ run[p].err # ErrLoad) =>
                  run[p].handoffs = 1 /\ run[p].err = ErrMaxIterations)
    /\ \A p \in Runs : InLoop(p) ~> LeftLoop(p)

\* A loop started with --max-iterations 0 has left through the hand-off at
\* its first exhaustion check, without attempting a gate.
C35_Witness ==
    \E p \in Runs :
        /\ LeftLoop(p)
        /\ run[p].maxIter = 0
        /\ run[p].checks = 1
        /\ run[p].implAttempts = 0
        /\ run[p].handoffs = 1
        /\ run[p].err = ErrMaxIterations

\* C36: the hand-off count of a run goes from 0 to 1 only, in the step in
\* which the exhaustion check finds Iteration > MaxIterations and the run
\* returns the exhaustion error; a run that returns nil or the state-load
\* error has handed nothing off.
C36_HandOffOnExhaustion ==
    [][\A p \in Runs :
         /\ run'[p].handoffs # run[p].handoffs =>
              /\ run[p].handoffs = 0
              /\ run'[p].handoffs = 1
              /\ run[p].pc = "load"
              /\ stateFile[1].Iteration > stateFile[1].MaxIterations
              /\ run'[p].returned
              /\ run'[p].err = ErrMaxIterations
         /\ (run'[p].returned /\ run'[p].err \in {Nil, ErrLoad}) => run'[p].handoffs = 0
         /\ run'[p].handoffs = 1 => run'[p].err = ErrMaxIterations]_vars

\* An invocation is over after one hand-off, reporting exhaustion, and
\* another one is over after a success without hand-off.
C36_Witness ==
    \E p, q \in Runs :
        /\ run[p].pc = "exit"
        /\ run[p].handoffs = 1
        /\ run[p].err = ErrMaxIterations
        /\ run[q].pc = "exit"
        /\ run[q].handoffs = 0
        /\ run[q].err = Nil

\* Invocation p's deferred sm.Cleanup runs in this step.
CleansUp(p) == run[p].pc = "cleanup" /\ run'[p].pc # "cleanup"

\* Invocation p's deferred lock.Release runs in this step.
Releases(p) == run[p].pc = "release" /\ run'[p].pc # "release"

\* C37: an invocation cleans up while it holds the lock and deletes only
\* the state it initialised itself; when it releases the lock no persisted
\* state is left; persisted state is initialised only where there is none.
C37_CleanupBeforeRelease ==
    [][\A p \in Runs :
         /\ CleansUp(p) =>
              /\ lock = p
              /\ lock' = p
              /\ stateFile # <<>> => stateFile[1].TaskID = p
              /\ stateFile' = <<>>
         /\ Releases(p) =>
              /\ lock = p
              /\ stateFile = <<>>
         /\ (run[p].pc = "init" /\ stateFile' # stateFile) =>
              /\ stateFile = <<>>
              /\ stateFile'[1].TaskID = p
              /\ lock = p]_vars

\* One invocation is over after its loop, cleanup and release, and a second
\* one, which acquired the lock afterwards, is in its loop with the state it
\* initialised.
C37_Witness ==
    \E p, q \in Runs :
        /\ run[p].pc = "exit"
        /\ run[p].err = ErrMaxIterations
        /\ InLoop(q)
        /\ lock = q
        /\ stateFile # <<>>
        /\ stateFile[1].TaskID = q

-----------------------------------------------------------------------------
(* Properties of the envelope bus *)

\* Envelopes subscription i can still receive, plus those it has received.
Receivable(i) == busSubs[i].received + Len(busSubs[i].queue)

\* C3: after N Publish calls on a matching topic have returned, from any
\* publisher threads, to a subscriber that read nothing meanwhile, exactly
\* min(N, 64) envelopes are receivable from its queue, and the queue never
\* holds more than 64 envelopes.
C3_DropOnFull ==
    \A i \in 1..Len(busSubs) :
        /\ Len(busSubs[i].queue) <= 64
        /\ Receivable(i) = Min(published, 64)

\* All the Publish calls of the flood, 70 or more, have returned, and the
\* subscriber has drained exactly 64 envelopes.
C3_Witness ==
    /\ published >= 70
    /\ published = MaxPublish
    /\ seqCounter = published
    /\ Len(busSubs) = 1
    /\ busSubs[1].received = 64
    /\ busSubs[1].queue = <<>>

\* C4: a publisher inside Publish can always complete the call, whatever the
\* subscribers' queues hold and without any subscriber receiving.
C4_PublishNeverBlocks ==
    \A t \in Pubs : pub[t].pc = "built" => ENABLED BusPublishDeliver(t)

\* Both publishers are inside Publish while the matching subscriber's queue is
\* full and has never been read, after a Publish returned on the full queue.
C4_Witness ==
    /\ \A t \in Pubs : pub[t].pc = "built"
    /\ Len(busSubs) = 1
    /\ Len(busSubs[1].queue) = QueueCap
    /\ busSubs[1].received = 0
    /\ published > QueueCap

\* Publisher t's Publish call returns in this step, on an open bus.
Delivers(t) == pub[t].pc = "built" /\ pub'[t].pc = "idle" /\ ~busClosed

\* Publisher t's NewEnvelope call happens in this step.
Builds(t) == pub[t].pc = "idle" /\ pub'[t].pc = "built"

\* C23: each Publish builds one envelope, and a live subscription with queue
\* room gets a copy of it appended to its queue if and only if its pattern
\* matches the published topic; every subscription sharing a matching
\* pattern gets its own copy, and a subscription whose pattern does not
\* match keeps its queue as it was.
C23_FanOut ==
    [][\A t \in Pubs :
         /\ Builds(t) => Len(built') = Len(built) + 1
         /\ Delivers(t) =>
              \A i \in 1..Len(busSubs) :
                  (~busSubs[i].closed /\ Len(busSubs[i].queue) < 64) =>
                      /\ busSubs'[i].queue = Append(busSubs[i].queue, pub[t].env[1])
                            <=> TopicMatch(busSubs[i].pattern, pub[t].env[1].Topic)
                      /\ ~TopicMatch(busSubs[i].pattern, pub[t].env[1].Topic)
                            => busSubs'[i].queue = busSubs[i].queue]_vars

\* Two live subscriptions share the pattern "consensus.s1" and have received
\* nothing; a Publish on "consensus.s1" and then one on "consensus.s2" have
\* returned: each subscription holds its own copy of the first envelope and
\* nothing of the second.
C23_Witness ==
    /\ Len(busSubs) = 2
    /\ \A i \in 1..2 :
           /\ busSubs[i].pattern = <<"consensus", ".", "s1">>
           /\ ~busSubs[i].closed
           /\ busSubs[i].received = 0
           /\ Len(busSubs[i].queue) = 1
           /\ busSubs[i].queue[1].Topic = <<"consensus", ".", "s1">>
    /\ busSubs[2].queue = busSubs[1].queue
    /\ published = 2
    /\ busRet = BusReturn("publish", <<"consensus", ".", "s2">>, Nil)

\* C24: when a Publish returns, every live matching subscription whose queue
\* is full is left exactly as it was, and every live matching subscription
\* with room has the envelope appended, whatever the other queues hold.
C24_PerSubscriberBackpressure ==
    [][\A t \in Pubs : Delivers(t) =>
         \A i \in 1..Len(busSubs) :
             (~busSubs[i].closed /\ TopicMatch(busSubs[i].pattern, pub[t].env[1].Topic)) =>
                 IF Len(busSubs[i].queue) >= 64
                 THEN busSubs'[i] = busSubs[i]
                 ELSE busSubs'[i].queue = Append(busSubs[i].queue, pub[t].env[1])]_vars

\* The first subscriber's queue is full and still holds the first 64
\* envelopes, while the second subscriber, who joined later, holds an
\* envelope that was dropped for the first.
C24_Witness ==
    /\ Len(busSubs) = 2
    /\ Len(busSubs[1].queue) = 64
    /\ busSubs[1].queue[1].Seq = 1
    /\ busSubs[1].queue[64].Seq = 64
    /\ busSubs[2].queue # <<>>
    /\ Len(busSubs[2].queue) < 64
    /\ busSubs[2].queue[Len(busSubs[2].queue)].Seq > 64

\* C25: once Unsubscribe(pattern) has returned, the queues subscribed under
\* the pattern are closed; a Publish that returns on the open bus returns no
\* error, does not panic, and leaves every closed queue as it was.
C25_UnsubscribeCloses ==
    [][/\ busRet'.op = "unsubscribe" =>
            \A i \in 1..Len(busSubs') :
                busSubs'[i].pattern = busRet'.arg => ChannelClosed(busSubs'[i])
       /\ \A t \in Pubs : Delivers(t) =>
            /\ busRet'.err = Nil
            /\ ~busPanic'
            /\ \A i \in 1..Len(busSubs) :
                   ChannelClosed(busSubs[i]) => busSubs'[i] = busSubs[i]]_vars

\* A subscription under "consensus" was unsubscribed, a second one is still
\* live, and a Publish on "consensus.s1" has returned since: the live one
\* holds the envelope, the unsubscribed one is closed and holds nothing.
C25_Witness ==
    /\ ~busClosed
    /\ Len(busSubs) = 2
    /\ busSubs[1].pattern = <<"consensus">>
    /\ ChannelClosed(busSubs[1])
    /\ busSubs[1].queue = <<>>
    /\ busSubs[1].received = 0
    /\ ~busSubs[2].closed
    /\ Len(busSubs[2].queue) = 1
    /\ published = 1
    /\ busRet = BusReturn("publish", <<"consensus", ".", "s1">>, Nil)

\* C26: on a closed bus every subscription's queue is closed; the bus stays
\* closed, no queue gains an envelope, no subscription is added, and a
\* Subscribe call returns an error.
C26_ClosePermanent ==
    [][/\ busClosed' =>
            \A i \in 1..Len(busSubs') :
                busSubs'[i].closed /\ ChannelClosed(busSubs'[i])
       /\ busClosed =>
            /\ busClosed'
            /\ Len(busSubs') = Len(busSubs)
            /\ \A i \in 1..Len(busSubs) : Len(busSubs'[i].queue) <= Len(busSubs[i].queue)
            /\ (busRet' # busRet /\ busRet'.op = "subscribe") => busRet'.err # Nil]_vars

\* The bus was closed with one subscription, whose queue is closed; a
\* Publish on a matching topic was made and a later Subscribe was refused.
C26_Witness ==
    /\ busClosed
    /\ Len(busSubs) = 1
    /\ busSubs[1].pattern = <<"consensus">>
    /\ ChannelClosed(busSubs[1])
    /\ busSubs[1].queue = <<>>
    /\ busSubs[1].received = 0
    /\ published = 1
    /\ busRet = BusReturn("subscribe", <<"consensus">>, ErrBusClosed)

\* C27: no bus call panics, and no queue's channel is closed more than once.
C27_MisuseIsSafe ==
    /\ ~busPanic
    /\ \A i \in 1..Len(busSubs) : busSubs[i].closes <= 1

\* Unsubscribe was called for a pattern after Close, on a bus whose two
\* subscriptions under that pattern were closed at different times, and a
\* Publish was made on the closed bus.
C27_Witness ==
    /\ busClosed
    /\ busRet = BusReturn("unsubscribe", <<"consensus">>, Nil)
    /\ Len(busSubs) = 2
    /\ \A i \in 1..2 : busSubs[i].pattern = <<"consensus">> /\ busSubs[i].closes = 1
    /\ Len(busSubs[1].queue) < Len(busSubs[2].queue)
    /\ published = 2

\* C40: in every interleaving of Subscribe, Publish from two threads,
\* Unsubscribe, Close and receives, no call panics and a queue whose channel
\* is closed gains no envelope, also from a Publish that built its envelope
\* before the close: what its subscriber receives afterwards was in the
\* queue when it was closed.
C40_NoDeliveryAfterClose ==
    [][/\ ~busPanic'
       /\ \A i \in 1..Len(busSubs) :
            ChannelClosed(busSubs[i]) =>
                /\ ChannelClosed(busSubs'[i])
                /\ \/ busSubs'[i].queue = busSubs[i].queue
                   \/ /\ busSubs[i].queue # <<>>
                      /\ busSubs'[i].queue = Tail(busSubs[i].queue)
                /\ Len(busSubs'[i].queue) + busSubs'[i].received
                       = Len(busSubs[i].queue) + busSubs[i].received]_vars

\* Two Publish calls overlapped an Unsubscribe("consensus"): the envelope
\* built second was delivered before the queue was closed, the one built
\* first, on "consensus.s1", after it. The closed queue holds the second only.
C40_Witness ==
    /\ ~busClosed
    /\ busSubs # <<>>
    /\ busSubs[1].pattern = <<"consensus">>
    /\ ChannelClosed(busSubs[1])
    /\ busSubs[1].received = 0
    /\ Len(busSubs[1].queue) = 1 /\ busSubs[1].queue[1].Seq = 2
    /\ built = <<1, 2>>
    /\ published = 2
    /\ \A t \in Pubs : pub[t].pc = "idle"
    /\ busRet = BusReturn("publish", <<"consensus", ".", "s1">>, Nil)

\* C28: the Seq of every envelope is positive, and of two envelopes the one
\* built first is the one with the smaller Seq.
C28_SeqOrder ==
    \A i \in 1..Len(built) :
        /\ built[i] > 0
        /\ \A j \in 1..Len(built) : (i < j) <=> (built[i] < built[j])

\* Both publisher threads are inside Publish at once, each with its own
\* envelope, the side thread's built first.
C28_Witness ==
    /\ \A t \in Pubs : pub[t].pc = "built"
    /\ pub["side"].env[1].Seq = 1
    /\ pub["main"].env[1].Seq = 2
    /\ built = <<1, 2>>

-----------------------------------------------------------------------------
(* Properties of TopicMatch and ReadBoard *)

\* Position of the first dot of s, or 0.
FirstDot(s) ==
    IF \E k \in 1..Len(s) : s[k] = "."
    THEN CHOOSE k \in 1..Len(s) : s[k] = "." /\ \A j \in 1..(k - 1) : s[j] # "."
    ELSE 0

RECURSIVE Segments(_)
\* The dot-separated segments of s.
Segments(s) ==
    IF FirstDot(s) = 0 THEN <<s>>
    ELSE <<SubSeq(s, 1, FirstDot(s) - 1)>> \o Segments(SubSeq(s, FirstDot(s) + 1, Len(s)))

\* C29: TopicMatch(pattern, topic) is true exactly when the pattern is empty,
\* equals the topic, or is followed in the topic by a dot; equivalently, when
\* the pattern is empty or its segments are the leading segments of the
\* topic, so that a pattern ending inside a segment of the topic does not
\* match.
C29_TopicMatch ==
    tmResult # NoCall =>
        /\ tmResult[1] =
              (\/ tmPattern = <<>>
               \/ tmPattern = tmTopic
               \/ /\ Len(tmTopic) > Len(tmPattern)
                  /\ SubSeq(tmTopic, 1, Len(tmPattern)) = tmPattern
                  /\ tmTopic[Len(tmPattern) + 1] = ".")
        /\ tmResult[1] = (tmPattern = <<>> \/ IsPrefix(Segments(tmPattern), Segments(tmTopic)))

\* TopicMatch("a", "ab.a") returned false: the pattern is a character prefix
\* of the topic but not one of its ancestors.
C29_Witness ==
    /\ tmPattern = <<"a">>
    /\ tmTopic = <<"a", "b", ".", "a">>
    /\ tmResult = <<FALSE>>

\* The lines of the board that hold a warning.
WarningLines == { n \in 1..Len(boardLines) : boardLines[n] = "board.warning" }

\* C30: whatever the board holds and whatever maxMessages is, the result of
\* ReadBoard holds every warning of the board exactly once; when the board
\* holds more warnings than maxMessages the result holds nothing else.
C30_WarningsKept ==
    boardResult # NoCall =>
        /\ \A n \in WarningLines :
               Cardinality({ k \in 1..Len(boardResult[1]) :
                               boardResult[1][k] = [Type |-> "board.warning", Sender |-> n] }) = 1
        /\ Cardinality(WarningLines) > boardMax =>
               \A k \in 1..Len(boardResult[1]) : boardResult[1][k].Type = "board.warning"

\* ReadBoard with maxMessages = 1 on a board of two warnings, a discovery and
\* a line that does not parse returned the two warnings and nothing else.
C30_Witness ==
    /\ boardLines = <<"board.discovery", "board.warning", "garbage", "board.warning">>
    /\ boardMax = 1
    /\ boardResult = << <<[Type |-> "board.warning", Sender |-> 2],
                          [Type |-> "board.warning", Sender |-> 4]>> >>

\* The lines of the board, in scan order, that hold an envelope of the kind.
LinesOf(kind) ==
    SelectSeq([n \in 1..Len(boardLines) |-> n], LAMBDA n : boardLines[n] = kind)

\* The lines the entries of a ReadBoard result came from.
SendersOf(res) == [k \in 1..Len(res) |-> res[k].Sender]

\* C31: the result of ReadBoard is every warning of the board in scan order,
\* followed by the last max(0, maxMessages - warningCount) other entries in
\* scan order; its length is at most max(maxMessages, warningCount).
C31_Retention ==
    boardResult # NoCall =>
        LET w == LinesOf("board.warning")
            o == LinesOf("board.discovery")
            keep == Min(Max(0, boardMax - Len(w)), Len(o))
            res == boardResult[1]
        IN  /\ SendersOf(res) = w \o SubSeq(o, Len(o) - keep + 1, Len(o))
            /\ \A k \in 1..Len(res) : res[k].Type = boardLines[res[k].Sender]
            /\ Len(res) <= Max(boardMax, Len(w))

\* ReadBoard with maxMessages = 2 on a board of a discovery, a warning and
\* two more discoveries returned the warning followed by the last discovery.
C31_Witness ==
    /\ boardLines = <<"board.discovery", "board.warning", "board.discovery", "board.discovery">>
    /\ boardMax = 2
    /\ boardResult = << <<[Type |-> "board.warning", Sender |-> 2],
                          [Type |-> "board.discovery", Sender |-> 4]>> >>

\* The directory holds a file with the .jsonl suffix.
HasBoardFile == \E f \in 1..Len(boardDir.entries) : boardDir.entries[f].kind \in {"jsonl", "locked"}

\* C32: ReadBoard on a directory that does not exist, or that exists and
\* holds no file with the .jsonl suffix, returns an empty list and no error.
C32_MissingDirectory ==
    (dirResult # NoCall /\ (boardDir.stat = "missing" \/ (boardDir.stat = "ok" /\ ~HasBoardFile))) =>
        /\ dirResult[1].result = <<>>
        /\ dirResult[1].err = Nil

\* ReadBoard on a directory that does not exist has returned.
C32_Witness ==
    /\ boardDir.stat = "missing"
    /\ boardMax > 0
    /\ dirResult = <<[result |-> <<>>, err |-> Nil]>>

\* The lines of the directory's readable .jsonl files that parse.
ParseableLines ==
    { <<f, n>> \in (1..Len(boardDir.entries)) \X (1..MaxFileLines) :
        /\ boardDir.entries[f].kind = "jsonl"
        /\ n <= Len(boardDir.entries[f].lines)
        /\ boardDir.entries[f].lines[n] \in {"board.warning", "board.discovery"} }

\* C33: ReadBoard on a readable directory returns no error and, when
\* maxMessages does not cap the result, exactly the envelopes of the lines
\* that parse in the directory's readable .jsonl files, whatever the other
\* entries and the other lines are.
C33_ParseableLinesRead ==
    (dirResult # NoCall /\ boardDir.stat = "ok") =>
        /\ dirResult[1].err = Nil
        /\ boardMax >= Uncapped =>
              /\ { dirResult[1].result[k].Sender : k \in 1..Len(dirResult[1].result) } = ParseableLines
              /\ Len(dirResult[1].result) = Cardinality(ParseableLines)

=============================================================================
